---- MODULE Spec2Model ----
(***************************************************************************)
(* TracMarket: the replicated contract (contract.js apply), the command    *)
(* router (TracMarketProtocol.handle) and the host that delivers committed *)
(* log entries to apply.                                                   *)
(*                                                                         *)
(* Strings that are used as keys are modelled as sequences of ':'-free     *)
(* segments; a segment <<name, digits>> stands for name when digits is     *)
(* empty and for name-digits otherwise ("LST-001" is <<"LST", <<0,0,1>>>>).*)
(* `${a}:${b}` is then the concatenation of the two sequences.  An object  *)
(* is a record holding exactly its defined fields, which is what           *)
(* JSON.stringify keeps of it.                                             *)
(***************************************************************************)
EXTENDS Integers, Sequences, FiniteSets, TLC

VARIABLES view, pending, listingSeq, offerSeq, dealSeq, ruleSeq, applyFault,
          now, caller, request, reply, outbox, log, firstView, replays,
          market, event, app

vars == <<view, pending, listingSeq, offerSeq, dealSeq, ruleSeq, applyFault,
          now, caller, request, reply, outbox, log, firstView, replays,
          market, event, app>>

\* the last call of handle: who called, with what, the reply, the broadcasts
callVars == <<caller, request, reply, outbox>>

contractVars == <<view, listingSeq, offerSeq, dealSeq, ruleSeq>>
replayVars == <<log, firstView, replays>>
\* each peer's Market object, the last event one of them has handled, and
\* the MarketApp of the peer that runs index.js
marketVars == <<market, event, app>>

\* ---------------------------------------------------------------- bounds
\* listings, offers and rules created in one run
MaxListings == 1
MaxOffers == 2
MaxRules == 1
\* mutating commands handled in one run (each reads the clock once)
MaxCmds == 4
\* committed entries not yet delivered to apply
MaxPending == 1
\* mutating commands in the runs that also enumerate rejected and read commands
MaxRouterCmds == 1
\* mutating commands in the runs where peers also write raw bytes to the log
MaxRawCmds == 2
\* mutating commands in the runs that replay the log
MaxReplayCmds == 3

\* the rate limiter: the length of its window in ticks of the clock, the
\* limit it is called with in the runs that check it, the last tick
DEAL_RATE_WINDOW_MS == 3
MaxPerHour == 2
MaxClock == 5
\* asking prices and bids the seller's auto-responder meets, and its offers
MaxAsk == 10
MaxBid == 10
MaxIncoming == 2
\* commands in the runs that post and reprice a listing
MaxPriceCmds == 3
MaxBuyerCmds == 7
\* commands in the runs of an agent with several rules
MaxEngineCmds == 3
\* commands in the runs with several offers on the one listing
MaxDealCmds == 5
\* commands in the runs that set and delete rules
MaxRuleCmds == 4
\* commands in the runs with the rule engine
MaxAgentCmds == 3

Peers == {"S", "B"}

\* ------------------------------------------------------- strings and ids
EmptyRec == [x \in {} |-> 0]

Seg(name, digits) == <<name, digits>>
Word(name) == <<Seg(name, <<>>)>>
Join(a, b) == a \o b

RECURSIVE Digits(_)
Digits(n) == IF n < 10 THEN <<n>> ELSE Append(Digits(n \div 10), n % 10)

RECURSIVE PadStart(_, _)
PadStart(ds, width) == IF Len(ds) >= width THEN ds ELSE PadStart(<<0>> \o ds, width)

\* an id that ignores the counter
nextId_Stuck(prefix, seq) == <<Seg(prefix, PadStart(Digits(1), 3))>>
nextId(prefix, seq) == <<Seg(prefix, PadStart(Digits(seq), 3))>>

StartsWith(key, name) == Len(key) > 0 /\ key[1][1] = name /\ key[1][2] # <<>>

\* a field of an object, or the text a template literal gives for undefined
Has(obj, f) == f \in DOMAIN obj
StrField(obj, f) == IF Has(obj, f) THEN obj[f] ELSE Word("undefined")
Set(obj, f, v) == (f :> v) @@ obj
Opt(obj, f, as) == IF Has(obj, f) THEN (as :> obj[f]) ELSE EmptyRec
\* x || dflt for a string-valued field
OrElse(obj, f, dflt) == IF Has(obj, f) /\ obj[f] # "" THEN obj[f] ELSE dflt
\* !x for a field that holds an id (a key string) or a text
TruthyId(obj, f) == Has(obj, f) /\ obj[f] # <<>>
TruthyText(obj, f) == Has(obj, f) /\ obj[f] # ""
\* a[f] !== b[g], undefined included
Differs(a, f, b, g) == IF Has(a, f) /\ Has(b, g) THEN a[f] # b[g] ELSE Has(a, f) # Has(b, g)
\* a[f] = b[g]; a field assigned undefined is dropped when the object is stored
Remove(obj, f) == [k \in DOMAIN obj \ {f} |-> obj[k]]
Assign(obj, f, src, g) == IF Has(src, g) THEN Set(obj, f, src[g]) ELSE Remove(obj, f)

\* ------------------------------------------------------------ the View
Present(v, key) == key \in DOMAIN v
Put(v, key, value) == (key :> value) @@ v


\* ------------------------------------------------- contract.js: apply
\* case 'listing_post' (seq is the incremented listingSeq)
ApplyListingPost(entry, v, seq) ==
    LET id == nextId("LST", seq)
        rec == [id |-> id,
                desc |-> OrElse(entry, "desc", ""),
                currency |-> OrElse(entry, "currency", "TNK"),
                category |-> OrElse(entry, "category", "general"),
                tags |-> OrElse(entry, "tags", ""),
                status |-> "active"]
               @@ Opt(entry, "title", "title") @@ Opt(entry, "price", "price")
               @@ Opt(entry, "seller", "seller") @@ Opt(entry, "ts", "createdAt")
    IN Put(v, id, rec)

\* listing_update that puts the listing on offer again
ApplyListingUpdate_Relisting(entry, v) ==
    IF ~Present(v, entry.id) THEN v
    ELSE LET listing == v[entry.id]
         IN IF Differs(listing, "seller", entry, "seller") THEN v
            ELSE LET l1 == IF Has(entry, "price") THEN Set(listing, "price", entry.price) ELSE listing
                     l2 == IF Has(entry, "desc") THEN Set(l1, "desc", entry.desc) ELSE l1
                     l3 == Assign(l2, "updatedAt", entry, "ts")
                 IN Put(v, entry.id, Set(l3, "status", "active"))

\* case 'listing_update'
ApplyListingUpdate(entry, v) ==
    IF ~Present(v, entry.id) THEN v
    ELSE LET listing == v[entry.id]
         IN IF Differs(listing, "seller", entry, "seller") THEN v
            ELSE LET l1 == IF Has(entry, "price") THEN Set(listing, "price", entry.price) ELSE listing
                     l2 == IF Has(entry, "desc") THEN Set(l1, "desc", entry.desc) ELSE l1
                     l3 == Assign(l2, "updatedAt", entry, "ts")
                 IN Put(v, entry.id, l3)

\* listing_remove that erases the key
ApplyListingRemove_Erasing(entry, v) ==
    IF ~Present(v, entry.id) THEN v
    ELSE IF Differs(v[entry.id], "seller", entry, "seller") THEN v
    ELSE [k \in DOMAIN v \ {entry.id} |-> v[k]]

\* listing_remove without the test of the owner
ApplyListingRemove_AnySubmitter(entry, v) ==
    IF ~Present(v, entry.id) THEN v
    ELSE Put(v, entry.id,
             Assign(Set(v[entry.id], "status", "removed"), "removedAt", entry, "ts"))

\* case 'listing_remove'
ApplyListingRemove(entry, v) ==
    IF ~Present(v, entry.id) THEN v
    ELSE LET listing == v[entry.id]
         IN IF Differs(listing, "seller", entry, "seller") THEN v
            ELSE Put(v, entry.id,
                     Assign(Set(listing, "status", "removed"), "removedAt", entry, "ts"))

\* offer_send that wants an active Listing
ApplyOfferSend_ActiveOnly(entry, v, seq) ==
    LET lid == StrField(entry, "listingId")
        offerId == nextId("OFR", seq)
        first == Opt(entry, "amount", "amount") @@ Opt(entry, "buyer", "by")
                 @@ Opt(entry, "ts", "at")
        rec == [id |-> offerId,
                note |-> OrElse(entry, "note", ""),
                status |-> "pending",
                history |-> <<first>>]
               @@ Opt(entry, "listingId", "listingId") @@ Opt(entry, "buyer", "buyer")
               @@ Opt(entry, "amount", "amount") @@ Opt(entry, "ts", "createdAt")
    IN IF Present(v, lid) /\ Has(v[lid], "status") /\ v[lid].status = "active"
       THEN Put(v, Join(lid, offerId), rec)
       ELSE v

\* case 'offer_send' (seq is the incremented offerSeq)
ApplyOfferSend(entry, v, seq) ==
    LET offerId == nextId("OFR", seq)
        key == Join(StrField(entry, "listingId"), offerId)
        first == Opt(entry, "amount", "amount") @@ Opt(entry, "buyer", "by")
                 @@ Opt(entry, "ts", "at")
        rec == [id |-> offerId,
                note |-> OrElse(entry, "note", ""),
                status |-> "pending",
                history |-> <<first>>]
               @@ Opt(entry, "listingId", "listingId") @@ Opt(entry, "buyer", "buyer")
               @@ Opt(entry, "amount", "amount") @@ Opt(entry, "ts", "createdAt")
    IN Put(v, key, rec)

OfferKey(entry) == Join(StrField(entry, "listingId"), StrField(entry, "offerId"))
\* the guard without its test of the status
IsPendingAt_StatusIgnored(v, key) == Present(v, key)
\* the guards shared by offer_counter, offer_accept and offer_decline
IsPendingAt(v, key) == Present(v, key) /\ Has(v[key], "status") /\ v[key].status = "pending"

\* case 'offer_counter'
\* offer_counter that keeps only the last step of the history
ApplyOfferCounter_HistoryReplaced(entry, v) ==
    LET key == OfferKey(entry)
    IN IF ~IsPendingAt(v, key) THEN v
       ELSE LET offer == v[key]
                o1 == Set(Assign(offer, "amount", entry, "amount"), "status", "pending")
                step == Opt(entry, "amount", "amount") @@ Opt(entry, "by", "by")
                        @@ Opt(entry, "ts", "at")
                o2 == Set(o1, "history", <<step>>)
                o3 == Assign(o2, "lastUpdated", entry, "ts")
            IN Put(v, key, o3)

ApplyOfferCounter(entry, v) ==
    LET key == OfferKey(entry)
    IN IF ~IsPendingAt(v, key) THEN v
       ELSE LET offer == v[key]
                o1 == Set(Assign(offer, "amount", entry, "amount"), "status", "pending")
                step == Opt(entry, "amount", "amount") @@ Opt(entry, "by", "by")
                        @@ Opt(entry, "ts", "at")
                o2 == Set(o1, "history", Append(offer.history, step))
                o3 == Assign(o2, "lastUpdated", entry, "ts")
            IN Put(v, key, o3)

\* offer_accept that does nothing once the Listing is sold
ApplyOfferAccept_UnsoldOnly(entry, v, seq) ==
    LET key == OfferKey(entry)
        lid == StrField(entry, "listingId")
    IN IF ~IsPendingAt(v, key) THEN v
       ELSE IF Present(v, lid) /\ Has(v[lid], "status") /\ v[lid].status = "sold" THEN v
       ELSE LET o1 == Set(v[key], "status", "accepted")
                o2 == Assign(o1, "acceptedAt", entry, "ts")
                offer == Assign(o2, "acceptedBy", entry, "by")
                v1 == Put(v, key, offer)
                dealId == nextId("DEAL", seq)
                found == Present(v1, lid)
                listing == IF found THEN v1[lid] ELSE EmptyRec
                sellerOf == IF TruthyText(listing, "seller") THEN ("seller" :> listing.seller)
                            ELSE Opt(entry, "seller", "seller")
                deal == [id |-> dealId,
                         listingTitle |-> OrElse(listing, "title", ""),
                         currency |-> OrElse(listing, "currency", "TNK")]
                        @@ Opt(entry, "listingId", "listingId")
                        @@ Opt(entry, "offerId", "offerId")
                        @@ Opt(offer, "buyer", "buyer") @@ sellerOf
                        @@ Opt(offer, "amount", "finalPrice")
                        @@ Opt(entry, "ts", "closedAt")
                v2 == Put(v1, dealId, deal)
                sold == Set(Assign(Set(listing, "status", "sold"), "soldAt", entry, "ts"),
                            "dealId", dealId)
            IN IF found THEN Put(v2, lid, sold) ELSE v2

\* offer_accept that marks the Listing sold without recording the Deal's id
ApplyOfferAccept_DealIdOmitted(entry, v, seq) ==
    LET key == OfferKey(entry)
    IN IF ~IsPendingAt(v, key) THEN v
       ELSE LET o1 == Set(v[key], "status", "accepted")
                o2 == Assign(o1, "acceptedAt", entry, "ts")
                offer == Assign(o2, "acceptedBy", entry, "by")
                v1 == Put(v, key, offer)
                dealId == nextId("DEAL", seq)
                lid == entry.listingId
                found == Present(v1, lid)
                listing == IF found THEN v1[lid] ELSE EmptyRec
                sellerOf == IF TruthyText(listing, "seller") THEN ("seller" :> listing.seller)
                            ELSE Opt(entry, "seller", "seller")
                deal == [id |-> dealId,
                         listingTitle |-> OrElse(listing, "title", ""),
                         currency |-> OrElse(listing, "currency", "TNK")]
                        @@ Opt(entry, "listingId", "listingId")
                        @@ Opt(entry, "offerId", "offerId")
                        @@ Opt(offer, "buyer", "buyer") @@ sellerOf
                        @@ Opt(offer, "amount", "finalPrice")
                        @@ Opt(entry, "ts", "closedAt")
                v2 == Put(v1, dealId, deal)
                sold == Assign(Set(listing, "status", "sold"), "soldAt", entry, "ts")
            IN IF found THEN Put(v2, lid, sold) ELSE v2

\* offer_accept whose Deal takes the amount the Offer was sent with
ApplyOfferAccept_FirstAmount(entry, v, seq) ==
    LET key == OfferKey(entry)
    IN IF ~IsPendingAt(v, key) THEN v
       ELSE LET o1 == Set(v[key], "status", "accepted")
                o2 == Assign(o1, "acceptedAt", entry, "ts")
                offer == Assign(o2, "acceptedBy", entry, "by")
                v1 == Put(v, key, offer)
                dealId == nextId("DEAL", seq)
                lid == entry.listingId
                found == Present(v1, lid)
                listing == IF found THEN v1[lid] ELSE EmptyRec
                sellerOf == IF TruthyText(listing, "seller") THEN ("seller" :> listing.seller)
                            ELSE Opt(entry, "seller", "seller")
                deal == [id |-> dealId,
                         listingTitle |-> OrElse(listing, "title", ""),
                         currency |-> OrElse(listing, "currency", "TNK")]
                        @@ Opt(entry, "listingId", "listingId")
                        @@ Opt(entry, "offerId", "offerId")
                        @@ Opt(offer, "buyer", "buyer") @@ sellerOf
                        @@ Opt(offer.history[1], "amount", "finalPrice")
                        @@ Opt(entry, "ts", "closedAt")
                v2 == Put(v1, dealId, deal)
                sold == Set(Assign(Set(listing, "status", "sold"), "soldAt", entry, "ts"),
                            "dealId", dealId)
            IN IF found THEN Put(v2, lid, sold) ELSE v2

\* case 'offer_accept' (seq is the incremented dealSeq)
ApplyOfferAccept(entry, v, seq) ==
    LET key == OfferKey(entry)
    IN IF ~IsPendingAt(v, key) THEN v
       ELSE LET o1 == Set(v[key], "status", "accepted")
                o2 == Assign(o1, "acceptedAt", entry, "ts")
                offer == Assign(o2, "acceptedBy", entry, "by")
                v1 == Put(v, key, offer)
                dealId == nextId("DEAL", seq)
                lid == entry.listingId
                found == Present(v1, lid)
                listing == IF found THEN v1[lid] ELSE EmptyRec
                sellerOf == IF TruthyText(listing, "seller") THEN ("seller" :> listing.seller)
                            ELSE Opt(entry, "seller", "seller")
                deal == [id |-> dealId,
                         listingTitle |-> OrElse(listing, "title", ""),
                         currency |-> OrElse(listing, "currency", "TNK")]
                        @@ Opt(entry, "listingId", "listingId")
                        @@ Opt(entry, "offerId", "offerId")
                        @@ Opt(offer, "buyer", "buyer") @@ sellerOf
                        @@ Opt(offer, "amount", "finalPrice")
                        @@ Opt(entry, "ts", "closedAt")
                v2 == Put(v1, dealId, deal)
                sold == Set(Assign(Set(listing, "status", "sold"), "soldAt", entry, "ts"),
                            "dealId", dealId)
            IN IF found THEN Put(v2, lid, sold) ELSE v2

\* case 'offer_decline'
ApplyOfferDecline(entry, v) ==
    LET key == OfferKey(entry)
    IN IF ~IsPendingAt(v, key) THEN v
       ELSE LET o1 == Set(v[key], "status", "declined")
                o2 == Assign(o1, "declinedAt", entry, "ts")
            IN Put(v, key, Assign(o2, "declinedBy", entry, "by"))

RuleKey(owner, ruleId) == Join(Join(Word("rule"), Word(owner)), ruleId)
OwnerText(entry) == IF Has(entry, "owner") THEN entry.owner ELSE "undefined"

\* case 'rule_set' (seq is the incremented ruleSeq)
ApplyRuleSet(entry, v, seq) ==
    LET ruleId == nextId("RULE", seq)
        rec == [id |-> ruleId]
               @@ Opt(entry, "owner", "owner") @@ Opt(entry, "ruleType", "type")
               @@ Opt(entry, "params", "params") @@ Opt(entry, "ts", "createdAt")
    IN Put(v, RuleKey(OwnerText(entry), ruleId), rec)

\* rule_delete that looks the rule up by its id alone
ApplyRuleDelete_AnyOwner(entry, v) ==
    LET named == {k \in DOMAIN v :
                    /\ Len(k) > 2 /\ k[1] = Seg("rule", <<>>)
                    /\ SubSeq(k, 3, Len(k)) = StrField(entry, "ruleId")}
    IN IF named = {} THEN v
       ELSE LET ruleKey == CHOOSE k \in named : TRUE
            IN Put(v, ruleKey, Set(v[ruleKey], "deleted", TRUE))

\* case 'rule_delete'
ApplyRuleDelete(entry, v) ==
    LET ruleKey == RuleKey(OwnerText(entry), StrField(entry, "ruleId"))
    IN IF ~Present(v, ruleKey) THEN v
       ELSE IF Differs(v[ruleKey], "owner", entry, "owner") THEN v
       ELSE Put(v, ruleKey, Set(v[ruleKey], "deleted", TRUE))

\* what JSON.parse(node.value) and the switch on entry.op make of one node:
\* the next values of <<view, listingSeq, offerSeq, dealSeq, ruleSeq>>
ApplyEntry(entry, v, ls, os, ds, rs) ==
    IF ~Has(entry, "op") THEN <<v, ls, os, ds, rs>>
    ELSE CASE entry.op = "listing_post" -> <<ApplyListingPost(entry, v, ls + 1), ls + 1, os, ds, rs>>
           [] entry.op = "listing_update" -> <<ApplyListingUpdate(entry, v), ls, os, ds, rs>>
           [] entry.op = "listing_remove" -> <<ApplyListingRemove(entry, v), ls, os, ds, rs>>
           [] entry.op = "offer_send" -> <<ApplyOfferSend(entry, v, os + 1), ls, os + 1, ds, rs>>
           [] entry.op = "offer_counter" -> <<ApplyOfferCounter(entry, v), ls, os, ds, rs>>
           [] entry.op = "offer_accept" ->
                IF IsPendingAt(v, OfferKey(entry))
                THEN <<ApplyOfferAccept(entry, v, ds + 1), ls, os, ds + 1, rs>>
                ELSE <<v, ls, os, ds, rs>>
           [] entry.op = "offer_decline" -> <<ApplyOfferDecline(entry, v), ls, os, ds, rs>>
           [] entry.op = "rule_set" -> <<ApplyRuleSet(entry, v, rs + 1), ls, os, ds, rs + 1>>
           [] entry.op = "rule_delete" -> <<ApplyRuleDelete(entry, v), ls, os, ds, rs>>
           [] OTHER -> <<v, ls, os, ds, rs>>

\* a log node: a JSON object, text that does not parse, the text null, or
\* the text of a number
JsonNode(entry) == [kind |-> "json", value |-> entry]
RawKinds == {"garbage", "null", "scalar"}
\* entry.op of null is a TypeError outside the try
Throws(node) == node.kind = "null"
Decodes(node) == node.kind = "json"

\* one iteration of the for loop of apply over the next delivered node
ApplyHead ==
    /\ pending # <<>>
    /\ ~applyFault
    /\ LET node == Head(pending)
       IN IF Throws(node)
          THEN /\ applyFault' = TRUE
               /\ UNCHANGED <<contractVars, pending>>
          ELSE /\ pending' = Tail(pending)
               /\ UNCHANGED applyFault
               /\ IF Decodes(node)
                  THEN LET next == ApplyEntry(node.value, view, listingSeq, offerSeq,
                                              dealSeq, ruleSeq)
                       IN /\ view' = next[1]
                          /\ listingSeq' = next[2]
                          /\ offerSeq' = next[3]
                          /\ dealSeq' = next[4]
                          /\ ruleSeq' = next[5]
                  ELSE UNCHANGED contractVars
    /\ UNCHANGED <<now, callVars, firstView, replays, marketVars>>

ApplyNode == ApplyHead /\ UNCHANGED log

\* ------------------------------------- TracMarketProtocol (command router)
\* _ok(msg, data) and _err(msg); a message is <<text, argument>>
Msg(text, arg) == <<text, arg>>
Ok(msg) == [ok |-> TRUE, message |-> msg]
OkData(data) == [ok |-> TRUE, data |-> data]
Err(text) == [ok |-> FALSE, error |-> Msg(text, <<>>)]
Raised(what) == [raised |-> what]

PublicChannel == [name |-> "tracmarket"]
DealChannel(listing_id) == [name |-> "deal-", id |-> listing_id]
Broadcast(channel, msg) == [channel |-> channel, msg |-> msg]

\* what a handler does: its reply, the entries it appends, what it broadcasts
Outcome(r, entries, out) == [reply |-> r, entries |-> entries, out |-> out]
Reject(text) == Outcome(Err(text), <<>>, <<>>)

\* _listingPost without the test for a negative price
_listingPost_AnyPrice(self, cmd, ts) ==
    IF ~TruthyText(cmd, "title") THEN Reject("listing_post requires title")
    ELSE IF ~Has(cmd, "price") THEN Reject("listing_post requires numeric price")
    ELSE Outcome(Ok(Msg("Listing posted to tracmarket channel", <<>>)),
                 <<[op |-> "listing_post", title |-> cmd.title, price |-> cmd.price,
                    seller |-> self, ts |-> ts]>>,
                 <<>>)

_listingPost(self, cmd, ts) ==
    IF ~TruthyText(cmd, "title") THEN Reject("listing_post requires title")
    ELSE IF ~Has(cmd, "price") \/ cmd.price < 0 THEN Reject("listing_post requires numeric price")
    ELSE LET entry == [op |-> "listing_post", title |-> cmd.title,
                       desc |-> OrElse(cmd, "desc", ""), price |-> cmd.price,
                       currency |-> OrElse(cmd, "currency", "TNK"),
                       category |-> OrElse(cmd, "category", "general"),
                       tags |-> OrElse(cmd, "tags", ""),
                       seller |-> self, ts |-> ts]
             note == [event |-> "LISTING_POST", title |-> cmd.title, price |-> cmd.price,
                      currency |-> OrElse(cmd, "currency", "TNK"),
                      category |-> OrElse(cmd, "category", "general"),
                      seller |-> self]
         IN Outcome(Ok(Msg("Listing posted to tracmarket channel", <<>>)),
                    <<entry>>, <<Broadcast(PublicChannel, note)>>)

_listingUpdate(self, cmd, ts) ==
    IF ~TruthyId(cmd, "id") THEN Reject("listing_update requires id")
    ELSE LET entry == [op |-> "listing_update", id |-> cmd.id, seller |-> self, ts |-> ts]
                      @@ Opt(cmd, "price", "price") @@ Opt(cmd, "desc", "desc")
             note == [event |-> "LISTING_UPDATE", id |-> cmd.id] @@ Opt(cmd, "price", "price")
         IN Outcome(Ok(Msg("Listing updated", cmd.id)), <<entry>>,
                    IF Has(cmd, "price") THEN <<Broadcast(PublicChannel, note)>> ELSE <<>>)

_listingRemove(self, cmd, ts) ==
    IF ~TruthyId(cmd, "id") THEN Reject("listing_remove requires id")
    ELSE LET entry == [op |-> "listing_remove", id |-> cmd.id, seller |-> self, ts |-> ts]
             note == [event |-> "LISTING_REMOVE", id |-> cmd.id]
         IN Outcome(Ok(Msg("Listing removed", cmd.id)), <<entry>>,
                    <<Broadcast(PublicChannel, note)>>)

_offerSend(self, cmd, ts) ==
    IF ~TruthyId(cmd, "listing_id") THEN Reject("offer_send requires listing_id")
    ELSE IF ~Has(cmd, "amount") THEN Reject("offer_send requires numeric amount")
    ELSE LET entry == [op |-> "offer_send", listingId |-> cmd.listing_id, buyer |-> self,
                       amount |-> cmd.amount, note |-> OrElse(cmd, "note", ""), ts |-> ts]
             note == [event |-> "OFFER_SENT", amount |-> cmd.amount,
                      note |-> OrElse(cmd, "note", ""), buyer |-> self]
         IN Outcome(Ok(Msg("Offer sent", <<>>)), <<entry>>,
                    <<Broadcast(DealChannel(cmd.listing_id), note)>>)

_offerCounter(self, cmd, ts) ==
    IF ~TruthyId(cmd, "listing_id") \/ ~TruthyId(cmd, "offer_id")
    THEN Reject("offer_counter requires listing_id and offer_id")
    ELSE IF ~Has(cmd, "amount") THEN Reject("offer_counter requires numeric amount")
    ELSE LET entry == [op |-> "offer_counter", listingId |-> cmd.listing_id,
                       offerId |-> cmd.offer_id, amount |-> cmd.amount,
                       by |-> self, ts |-> ts]
             note == [event |-> "OFFER_COUNTER", offerId |-> cmd.offer_id,
                      amount |-> cmd.amount, by |-> self]
         IN Outcome(Ok(Msg("Counter-offer sent", <<cmd.amount>>)), <<entry>>,
                    <<Broadcast(DealChannel(cmd.listing_id), note)>>)

_offerAccept(self, cmd, ts) ==
    IF ~TruthyId(cmd, "listing_id") \/ ~TruthyId(cmd, "offer_id")
    THEN Reject("offer_accept requires listing_id and offer_id")
    ELSE LET entry == [op |-> "offer_accept", listingId |-> cmd.listing_id,
                       offerId |-> cmd.offer_id, by |-> self, seller |-> self, ts |-> ts]
             dealMsg == [event |-> "OFFER_ACCEPTED", offerId |-> cmd.offer_id, by |-> self]
             closed == [event |-> "DEAL_CLOSED", listingId |-> cmd.listing_id]
         IN Outcome(Ok(Msg("Deal accepted! Recorded on-chain.", <<>>)), <<entry>>,
                    <<Broadcast(DealChannel(cmd.listing_id), dealMsg),
                      Broadcast(PublicChannel, closed)>>)

_offerDecline(self, cmd, ts) ==
    IF ~TruthyId(cmd, "listing_id") \/ ~TruthyId(cmd, "offer_id")
    THEN Reject("offer_decline requires listing_id and offer_id")
    ELSE LET entry == [op |-> "offer_decline", listingId |-> cmd.listing_id,
                       offerId |-> cmd.offer_id, by |-> self, ts |-> ts]
             note == [event |-> "OFFER_DECLINED", offerId |-> cmd.offer_id, by |-> self]
         IN Outcome(Ok(Msg("Offer declined", <<>>)), <<entry>>,
                    <<Broadcast(DealChannel(cmd.listing_id), note)>>)

_ruleSet(self, cmd, ts) ==
    LET shape ==
          IF Has(cmd, "auto_buy_below")
          THEN <<"auto_buy", Opt(cmd, "category", "category") @@ [max_price |-> cmd.auto_buy_below]>>
          ELSE IF Has(cmd, "auto_accept_above")
          THEN <<"auto_accept", Opt(cmd, "listing_id", "listingId")
                                @@ [min_price |-> cmd.auto_accept_above]>>
          ELSE IF Has(cmd, "auto_counter_ratio")
          THEN <<"auto_counter", Opt(cmd, "listing_id", "listingId")
                                 @@ [ratio |-> cmd.auto_counter_ratio]>>
          ELSE <<"none", EmptyRec>>
    IN IF shape[1] = "none"
       THEN Reject("rule_set: specify auto_buy_below, auto_accept_above, or auto_counter_ratio")
       ELSE Outcome(Ok(Msg("Rule set", Word(shape[1]))),
                    <<[op |-> "rule_set", ruleType |-> shape[1], params |-> shape[2],
                       owner |-> self, ts |-> ts]>>,
                    <<>>)

\* _ruleDelete that leaves the owner out of the entry
_ruleDelete_NoOwner(self, cmd, ts) ==
    IF ~TruthyId(cmd, "rule_id") THEN Reject("rule_delete requires rule_id")
    ELSE Outcome(Ok(Msg("Rule deleted", cmd.rule_id)),
                 <<[op |-> "rule_delete", ruleId |-> cmd.rule_id, ts |-> ts]>>,
                 <<>>)

_ruleDelete(self, cmd, ts) ==
    IF ~TruthyId(cmd, "rule_id") THEN Reject("rule_delete requires rule_id")
    ELSE Outcome(Ok(Msg("Rule deleted", cmd.rule_id)),
                 <<[op |-> "rule_delete", ruleId |-> cmd.rule_id, owner |-> self, ts |-> ts]>>,
                 <<>>)

\* byte order of keys, as createReadStream delivers them; exact as long as no
\* segment of one key is a proper prefix of a segment of another, which holds
\* for three-digit ids and the names below (listed in byte order)
Names == <<"B", "DEAL", "LST", "OFR", "RULE", "S", "rule", "undefined">>
NameRank(name) == CHOOSE i \in 1..Len(Names) : Names[i] = name

RECURSIVE DigitsLess(_, _)
DigitsLess(a, b) ==
    IF a = <<>> THEN b # <<>>
    ELSE IF b = <<>> THEN FALSE
    ELSE IF Head(a) # Head(b) THEN Head(a) < Head(b)
    ELSE DigitsLess(Tail(a), Tail(b))

SegLess(a, b) ==
    IF a[1] # b[1] THEN NameRank(a[1]) < NameRank(b[1]) ELSE DigitsLess(a[2], b[2])

RECURSIVE KeyLess(_, _)
KeyLess(a, b) ==
    IF a = <<>> THEN b # <<>>
    ELSE IF b = <<>> THEN FALSE
    ELSE IF Head(a) # Head(b) THEN SegLess(Head(a), Head(b))
    ELSE KeyLess(Tail(a), Tail(b))

RECURSIVE SortKeys(_)
SortKeys(ks) ==
    IF ks = {} THEN <<>>
    ELSE LET least == CHOOSE k \in ks : \A o \in ks \ {k} : KeyLess(k, o)
         IN <<least>> \o SortKeys(ks \ {least})

createReadStream(v) == SortKeys(DOMAIN v)

\* the values, in stream order, of the keys that the loop does not skip
Filter(keys, v, wanted) ==
    LET kept == SelectSeq(keys, LAMBDA k : k \in wanted)
    IN [i \in 1..Len(kept) |-> v[kept[i]]]

\* the loop pushes, then breaks once results.length >= limit
Limited(results, limit) ==
    LET n == IF limit < 1 THEN 1 ELSE limit
    IN IF Len(results) <= n THEN results ELSE SubSeq(results, 1, n)

_listingList(self, cmd, v) ==
    LET Keep(key, listing) ==
            /\ StartsWith(key, "LST")
            /\ Has(listing, "status") /\ listing.status = "active"
            /\ ~(TruthyText(cmd, "category") /\ listing.category # cmd.category)
            /\ ~(Has(cmd, "max_price") /\ Has(listing, "price") /\ listing.price > cmd.max_price)
            /\ ~(Has(cmd, "mine") /\ cmd.mine /\ ~(Has(listing, "seller") /\ listing.seller = self))
        limit == IF Has(cmd, "limit") THEN cmd.limit ELSE 20
    IN Outcome(OkData(Limited(Filter(createReadStream(v), v, {k \in DOMAIN v : Keep(k, v[k])}), limit)), <<>>, <<>>)

\* view.get gives the stored text, as apply reads it; raw.value of a text is
\* undefined and JSON.parse(undefined) is a SyntaxError
_get(cmd, v, missing, notFound) ==
    IF ~TruthyId(cmd, "id") THEN Reject(missing)
    ELSE IF ~Present(v, cmd.id) THEN Outcome([ok |-> FALSE, error |-> Msg(notFound, cmd.id)], <<>>, <<>>)
    ELSE Outcome(Raised("SyntaxError"), <<>>, <<>>)

_listingGet(cmd, v) == _get(cmd, v, "listing_get requires id", "Listing not found")

_dealList(self, cmd, v) ==
    LET Keep(key, deal) ==
            /\ StartsWith(key, "DEAL")
            /\ ~(Has(cmd, "mine") /\ cmd.mine
                  /\ ~(Has(deal, "buyer") /\ deal.buyer = self)
                  /\ ~(Has(deal, "seller") /\ deal.seller = self))
        limit == IF Has(cmd, "limit") THEN cmd.limit ELSE 10
    IN Outcome(OkData(Limited(Filter(createReadStream(v), v, {k \in DOMAIN v : Keep(k, v[k])}), limit)), <<>>, <<>>)

_dealGet(cmd, v) == _get(cmd, v, "deal_get requires id", "Deal not found")

_ruleList(self, v) ==
    LET prefix == Join(Word("rule"), Word(self))
        Keep(key, rule) ==
            /\ Len(key) > 2 /\ SubSeq(key, 1, 2) = prefix
            /\ ~(Has(rule, "deleted") /\ rule.deleted)
    IN Outcome(OkData(Filter(createReadStream(v), v, {k \in DOMAIN v : Keep(k, v[k])})), <<>>, <<>>)

\* handle(raw): raw is an object, text that does not parse, null, or a number
ObjectCmd(cmd) == [kind |-> "object", cmd |-> cmd]
\* a router that looks the Listing up before it appends a listing_remove
Dispatch_ListingLookedUp(self, raw, v, ts) ==
    IF raw.kind = "badjson" THEN Reject("Invalid JSON command")
    ELSE IF raw.kind = "null" THEN Outcome(Raised("TypeError"), <<>>, <<>>)
    ELSE IF raw.kind = "scalar" \/ ~Has(raw.cmd, "op") THEN Reject("Missing op field")
    ELSE LET cmd == raw.cmd
         IN CASE cmd.op = "listing_post" -> _listingPost(self, cmd, ts)
              [] cmd.op = "listing_update" -> _listingUpdate(self, cmd, ts)
              [] cmd.op = "listing_remove" ->
                    IF Has(cmd, "id") /\ ~Present(v, cmd.id)
                    THEN Reject("Listing not found")
                    ELSE _listingRemove(self, cmd, ts)
              [] cmd.op = "listing_list" -> _listingList(self, cmd, v)
              [] cmd.op = "listing_get" -> _listingGet(cmd, v)
              [] cmd.op = "offer_send" -> _offerSend(self, cmd, ts)
              [] cmd.op = "offer_counter" -> _offerCounter(self, cmd, ts)
              [] cmd.op = "offer_accept" -> _offerAccept(self, cmd, ts)
              [] cmd.op = "offer_decline" -> _offerDecline(self, cmd, ts)
              [] cmd.op = "deal_list" -> _dealList(self, cmd, v)
              [] cmd.op = "deal_get" -> _dealGet(cmd, v)
              [] cmd.op = "rule_set" -> _ruleSet(self, cmd, ts)
              [] cmd.op = "rule_list" -> _ruleList(self, v)
              [] cmd.op = "rule_delete" -> _ruleDelete(self, cmd, ts)
              [] OTHER -> Outcome([ok |-> FALSE, error |-> Msg("Unknown op", Word(cmd.op))],
                                  <<>>, <<>>)

Dispatch(self, raw, v, ts) ==
    IF raw.kind = "badjson" THEN Reject("Invalid JSON command")
    ELSE IF raw.kind = "null" THEN Outcome(Raised("TypeError"), <<>>, <<>>)
    ELSE IF raw.kind = "scalar" \/ ~Has(raw.cmd, "op") THEN Reject("Missing op field")
    ELSE LET cmd == raw.cmd
         IN CASE cmd.op = "listing_post" -> _listingPost(self, cmd, ts)
              [] cmd.op = "listing_update" -> _listingUpdate(self, cmd, ts)
              [] cmd.op = "listing_remove" -> _listingRemove(self, cmd, ts)
              [] cmd.op = "listing_list" -> _listingList(self, cmd, v)
              [] cmd.op = "listing_get" -> _listingGet(cmd, v)
              [] cmd.op = "offer_send" -> _offerSend(self, cmd, ts)
              [] cmd.op = "offer_counter" -> _offerCounter(self, cmd, ts)
              [] cmd.op = "offer_accept" -> _offerAccept(self, cmd, ts)
              [] cmd.op = "offer_decline" -> _offerDecline(self, cmd, ts)
              [] cmd.op = "deal_list" -> _dealList(self, cmd, v)
              [] cmd.op = "deal_get" -> _dealGet(cmd, v)
              [] cmd.op = "rule_set" -> _ruleSet(self, cmd, ts)
              [] cmd.op = "rule_list" -> _ruleList(self, v)
              [] cmd.op = "rule_delete" -> _ruleDelete(self, cmd, ts)
              [] OTHER -> Outcome([ok |-> FALSE, error |-> Msg("Unknown op", Word(cmd.op))],
                                  <<>>, <<>>)

\* peer self handles raw: append to the log, broadcast, reply
Handle(self, raw) ==
    LET out == Dispatch(self, raw, view, now)
    IN /\ Len(pending) + Len(out.entries) <= MaxPending
       /\ pending' = pending \o [i \in 1..Len(out.entries) |-> JsonNode(out.entries[i])]
       /\ now' = now + Len(out.entries)
       /\ caller' = self
       /\ request' = raw
       /\ reply' = out.reply
       /\ outbox' = out.out
       /\ UNCHANGED <<contractVars, applyFault, replayVars, marketVars>>

\* a peer writes bytes to the log that no router produced
PeerAppendRaw(node) ==
    /\ Len(pending) < MaxPending
    /\ pending' = Append(pending, node)
    /\ UNCHANGED <<contractVars, applyFault, now, callVars, replayVars, marketVars>>

\* ------------------------------------------------- market.js: Market
\* new Market(protocol, address, agentMode); admitted is kept for the
\* properties only: every time at which the rate limiter said yes
Market(agentMode) ==
    [agentMode |-> agentMode, dealTimestamps |-> <<>>, joined |-> {}, admitted |-> <<>>]

\* _checkRateLimit(maxPerHour) at time t: <<the answer, the new dealTimestamps>>
_checkRateLimit_Inclusive(stamps, t, maxPerHour) ==
    LET kept == SelectSeq(stamps, LAMBDA s : t - s <= DEAL_RATE_WINDOW_MS)
    IN IF Len(kept) >= maxPerHour THEN <<FALSE, kept>> ELSE <<TRUE, Append(kept, t)>>

_checkRateLimit(stamps, t, maxPerHour) ==
    LET kept == SelectSeq(stamps, LAMBDA s : t - s < DEAL_RATE_WINDOW_MS)
    IN IF Len(kept) >= maxPerHour THEN <<FALSE, kept>> ELSE <<TRUE, Append(kept, t)>>

\* the limit _evalBuyRules passes to the rate limiter
AutoBuyLimit == 10

\* what an event handler has done so far: its calls of protocol.handle with
\* their replies, the entries and broadcasts of those calls, the channels
\* joined, the rate limiter's list, how often the handler has asked the rate
\* limiter, and whether a call raised
Acc(m) ==
    [calls |-> <<>>, entries |-> <<>>, out |-> <<>>, joined |-> m.joined,
     stamps |-> m.dealTimestamps, admitted |-> m.admitted, asked |-> 0,
     raised |-> FALSE]

\* the handler has called protocol.handle(cmd) and the call came to res
Called(acc, cmd, res) ==
    [acc EXCEPT !.calls = Append(@, [cmd |-> cmd, reply |-> res.reply]),
                !.entries = @ \o res.entries,
                !.out = @ \o res.out,
                !.raised = "raised" \in DOMAIN res.reply]

\* await this.protocol.handle(cmd), at time t
Nested(self, cmd, v, t, acc) ==
    Called(acc, cmd, Dispatch(self, ObjectCmd(cmd), v, t + Len(acc.entries)))

\* result.data || []
DataOf(r) == IF "data" \in DOMAIN r THEN r.data ELSE <<>>
LastReply(acc) == acc.calls[Len(acc.calls)].reply

RECURSIVE BuyLoop(_, _, _, _, _, _, _)
\* the loop going on to the next rule when the rate limiter says no
BuyLoop_NoReturn(self, listing, rules, i, v, t, acc) ==
    IF i > Len(rules) THEN acc
    ELSE LET rule == rules[i]
         IN IF rule.type # "auto_buy" THEN BuyLoop(self, listing, rules, i + 1, v, t, acc)
            ELSE IF TruthyText(rule.params, "category")
                    /\ rule.params.category # listing.category
            THEN BuyLoop(self, listing, rules, i + 1, v, t, acc)
            ELSE IF listing.price > rule.params.max_price
            THEN BuyLoop(self, listing, rules, i + 1, v, t, acc)
            ELSE LET at == t + Len(acc.entries)
                     r == _checkRateLimit(acc.stamps, at, AutoBuyLimit)
                 IN IF ~r[1] THEN BuyLoop(self, listing, rules, i + 1, v, t,
                                         [acc EXCEPT !.stamps = r[2], !.asked = @ + 1])
                    ELSE LET joined == [acc EXCEPT !.stamps = r[2],
                                                   !.asked = @ + 1,
                                                   !.admitted = Append(@, at),
                                                   !.joined = @ \cup {DealChannel(StrField(listing, "id"))}]
                             cmd == [op |-> "offer_send", amount |-> listing.price,
                                     note |-> "Auto-buy: accepting ask price"]
                                    @@ Opt(listing, "id", "listing_id")
                         IN BuyLoop(self, listing, rules, i + 1, v, t,
                                    Nested(self, cmd, v, t, joined))

\* the for loop of _evalBuyRules, from the i-th rule on
BuyLoop(self, listing, rules, i, v, t, acc) ==
    IF i > Len(rules) THEN acc
    ELSE LET rule == rules[i]
         IN IF rule.type # "auto_buy" THEN BuyLoop(self, listing, rules, i + 1, v, t, acc)
            ELSE IF TruthyText(rule.params, "category")
                    /\ rule.params.category # listing.category
            THEN BuyLoop(self, listing, rules, i + 1, v, t, acc)
            ELSE IF listing.price > rule.params.max_price
            THEN BuyLoop(self, listing, rules, i + 1, v, t, acc)
            ELSE LET at == t + Len(acc.entries)
                     r == _checkRateLimit(acc.stamps, at, AutoBuyLimit)
                 IN IF ~r[1] THEN [acc EXCEPT !.stamps = r[2], !.asked = @ + 1]
                    ELSE LET joined == [acc EXCEPT !.stamps = r[2],
                                                   !.asked = @ + 1,
                                                   !.admitted = Append(@, at),
                                                   !.joined = @ \cup {DealChannel(StrField(listing, "id"))}]
                             cmd == [op |-> "offer_send", amount |-> listing.price,
                                     note |-> "Auto-buy: accepting ask price"]
                                    @@ Opt(listing, "id", "listing_id")
                         IN BuyLoop(self, listing, rules, i + 1, v, t,
                                    Nested(self, cmd, v, t, joined))

\* the rules of _evalBuyRules are the data of its rule_list call
BuyRules(self, listing, v, t, listed) ==
    BuyLoop(self, listing, DataOf(LastReply(listed)), 1, v, t, listed)

_evalBuyRules(self, listing, v, t, acc) ==
    BuyRules(self, listing, v, t, Nested(self, [op |-> "rule_list"], v, t, acc))

\* Math.floor(price * ratio); a ratio is held in hundredths (90 is 0.9)
Floor(price, ratio) == (price * ratio) \div 100

\* the offer_accept command of _evalAcceptRules
AcceptCmd(listingId, offerMsg) ==
    [op |-> "offer_accept", listing_id |-> listingId] @@ Opt(offerMsg, "offerId", "offer_id")

RECURSIVE AcceptLoop(_, _, _, _, _, _, _, _)
\* the auto_counter branch of the loop, after its listing_get call
CounterOrAccept(self, listingId, offerMsg, rules, i, v, t, got) ==
    LET listingResult == LastReply(got)
    IN IF got.raised THEN got
       ELSE IF ~listingResult.ok
       THEN AcceptLoop(self, listingId, offerMsg, rules, i + 1, v, t, got)
       ELSE LET floor == Floor(listingResult.data.price, rules[i].params.ratio)
                counter == [op |-> "offer_counter", listing_id |-> listingId,
                            amount |-> floor]
                           @@ Opt(offerMsg, "offerId", "offer_id")
            IN Nested(self, IF offerMsg.amount < floor THEN counter
                            ELSE AcceptCmd(listingId, offerMsg), v, t, got)

\* the loop without the return after its auto_accept
AcceptLoop_NoReturn(self, listingId, offerMsg, rules, i, v, t, acc) ==
    IF i > Len(rules) THEN acc
    ELSE LET rule == rules[i]
             mine == Has(rule.params, "listingId") /\ rule.params.listingId = listingId
         IN IF rule.type = "auto_accept" /\ mine /\ offerMsg.amount >= rule.params.min_price
            THEN AcceptLoop(self, listingId, offerMsg, rules, i + 1, v, t,
                            Nested(self, AcceptCmd(listingId, offerMsg), v, t, acc))
            ELSE IF rule.type = "auto_counter" /\ mine
            THEN CounterOrAccept(self, listingId, offerMsg, rules, i, v, t,
                                 Nested(self, [op |-> "listing_get", id |-> listingId],
                                        v, t, acc))
            ELSE AcceptLoop(self, listingId, offerMsg, rules, i + 1, v, t, acc)

\* the for loop of _evalAcceptRules, from the i-th rule on
AcceptLoop(self, listingId, offerMsg, rules, i, v, t, acc) ==
    IF i > Len(rules) THEN acc
    ELSE LET rule == rules[i]
             mine == Has(rule.params, "listingId") /\ rule.params.listingId = listingId
         IN IF rule.type = "auto_accept" /\ mine /\ offerMsg.amount >= rule.params.min_price
            THEN Nested(self, AcceptCmd(listingId, offerMsg), v, t, acc)
            ELSE IF rule.type = "auto_counter" /\ mine
            THEN CounterOrAccept(self, listingId, offerMsg, rules, i, v, t,
                                 Nested(self, [op |-> "listing_get", id |-> listingId],
                                        v, t, acc))
            ELSE AcceptLoop(self, listingId, offerMsg, rules, i + 1, v, t, acc)

\* the rules of _evalAcceptRules are the data of its rule_list call
AcceptRules(self, listingId, offerMsg, v, t, listed) ==
    AcceptLoop(self, listingId, offerMsg, DataOf(LastReply(listed)), 1, v, t, listed)

_evalAcceptRules(self, listingId, offerMsg, v, t, acc) ==
    AcceptRules(self, listingId, offerMsg, v, t,
                Nested(self, [op |-> "rule_list"], v, t, acc))

\* the events that start the rule engine; the other events only print
_onPublicChannelEvent(self, msg, from, v, t, agentMode, acc) ==
    IF msg.event = "LISTING_POST" /\ agentMode
    THEN _evalBuyRules(self, Set(msg, "seller", from), v, t, acc)
    ELSE acc

_onDealChannelEvent(self, listingId, msg, v, t, agentMode, acc) ==
    IF msg.event = "OFFER_SENT" /\ agentMode
    THEN _evalAcceptRules(self, listingId, msg, v, t, acc)
    ELSE acc

\* the listener of 'sc_message'
OnMessage(self, channel, msg, from, v, t, agentMode, acc) ==
    IF channel = PublicChannel
    THEN _onPublicChannelEvent(self, msg, from, v, t, agentMode, acc)
    ELSE _onDealChannelEvent(self, channel.id, msg, v, t, agentMode, acc)

\* peer p has handled broadcast b, the i-th of the outbox, as acc tells
Received(p, i, b, acc) ==
       /\ Len(pending) + Len(acc.entries) <= MaxPending
       /\ pending' = pending \o [k \in 1..Len(acc.entries) |-> JsonNode(acc.entries[k])]
       /\ now' = now + Len(acc.entries)
       /\ market' = [market EXCEPT ![p].dealTimestamps = acc.stamps,
                                   ![p].joined = acc.joined,
                                   ![p].admitted = acc.admitted]
       /\ event' = [kind |-> "message", to |-> p, channel |-> b.channel, msg |-> b.msg,
                    from |-> caller, calls |-> acc.calls, asked |-> acc.asked,
                    raised |-> acc.raised]
       /\ IF acc.calls = <<>>
          THEN /\ outbox' = SubSeq(outbox, 1, i - 1) \o SubSeq(outbox, i + 1, Len(outbox))
               /\ UNCHANGED <<caller, request, reply>>
          ELSE /\ caller' = p
               /\ request' = ObjectCmd(acc.calls[Len(acc.calls)].cmd)
               /\ reply' = LastReply(acc)
               /\ outbox' = acc.out
       /\ UNCHANGED <<contractVars, applyFault, replayVars, app>>

\* peer p receives the i-th broadcast of the last command another peer made
Receive(p, i) ==
    /\ p # caller
    /\ Received(p, i, outbox[i],
                OnMessage(p, outbox[i].channel, outbox[i].msg, caller, view, now,
                          market[p].agentMode, Acc(market[p])))

\* ----------------------------------------------------------------- inputs
L1 == nextId("LST", 1)
D1 == nextId("DEAL", 1)
O1 == nextId("OFR", 1)
O2 == nextId("OFR", 2)
R1 == nextId("RULE", 1)
\* the text LST-001:OFR-001, which is the key of an offer and a legal listing_id
L1O1 == Join(L1, O1)

\* commands that pass validation and append an entry
MutatingCmds ==
    {[op |-> "listing_post", title |-> "Keyboard", price |-> 2]}
    \cup {[op |-> "listing_update", id |-> L1, price |-> 1],
          [op |-> "listing_update", id |-> D1, desc |-> "used"]}
    \cup {[op |-> "listing_remove", id |-> id] : id \in {L1, D1}}
    \cup {[op |-> "offer_send", listing_id |-> l, amount |-> 1] : l \in {L1, L1O1}}
    \cup {[op |-> "offer_counter", listing_id |-> L1, offer_id |-> O1, amount |-> 2]}
    \cup {[op |-> "offer_accept", listing_id |-> L1, offer_id |-> o] : o \in {O1, O2}}
    \cup {[op |-> "offer_accept", listing_id |-> L1O1, offer_id |-> O2]}
    \cup {[op |-> "offer_decline", listing_id |-> L1, offer_id |-> O1]}
    \cup {[op |-> "rule_set", auto_buy_below |-> 2]}

RawNodes ==
    {[kind |-> k] : k \in RawKinds}
    \cup {JsonNode([op |-> "bogus"]), JsonNode([op |-> "offer_accept"])}

\* new MarketApp(intercom, tracAddress): nothing discovered, no offer yet
MarketApp == [listings |-> EmptyRec, incomingOffers |-> <<>>]

NoReply == [none |-> TRUE]
NoEvent == [kind |-> "none"]

Init ==
    /\ view = EmptyRec
    /\ pending = <<>>
    /\ listingSeq = 0 /\ offerSeq = 0 /\ dealSeq = 0 /\ ruleSeq = 0
    /\ applyFault = FALSE
    /\ now = 1
    /\ caller = "nobody"
    /\ request = [kind |-> "none"]
    /\ reply = NoReply
    /\ outbox = <<>>
    /\ log = <<>>
    /\ firstView = EmptyRec
    /\ replays = 0
    /\ market = [p \in Peers |-> Market(FALSE)]
    /\ event = NoEvent
    /\ app = MarketApp

\* the entries of one op that are committed and not yet applied
CountPending(op) ==
    Cardinality({i \in DOMAIN pending :
                   Decodes(pending[i]) /\ Has(pending[i].value, "op") /\ pending[i].value.op = op})

\* the caps that keep the counters and the histories within the bounds
Allowed(cmd) ==
    CASE cmd.op = "listing_post" -> listingSeq + CountPending("listing_post") < MaxListings
      [] cmd.op = "offer_send" -> offerSeq + CountPending("offer_send") < MaxOffers
      [] cmd.op = "rule_set" -> ruleSeq + CountPending("rule_set") < MaxRules
      [] OTHER -> TRUE

\* the peers are interchangeable, so the first command is taken to be S's
SubmitUpTo(n) ==
    \E self \in Peers, cmd \in MutatingCmds :
       /\ now <= n
       /\ now = 1 => self = "S"
       /\ Allowed(cmd)
       /\ Handle(self, ObjectCmd(cmd))

Submit == SubmitUpTo(MaxCmds)

Next == Submit \/ ApplyNode

Spec == Init /\ [][Next]_vars

\* ---------------------------------------- peers that write raw log entries
SubmitFew == SubmitUpTo(MaxRawCmds)
Corrupt == \E node \in RawNodes : PeerAppendRaw(node)

NextRaw == SubmitFew \/ ApplyNode \/ Corrupt

SpecRaw == Init /\ [][NextRaw]_vars

\* ------------------------- every kind of command: rejected ones and reads
\* commands that one of the validation rules rejects
RejectedCmds ==
    {[op |-> "listing_post", price |-> 2],
     [op |-> "listing_post", title |-> "", price |-> 2],
     [op |-> "listing_post", title |-> "Keyboard"],
     [op |-> "listing_post", title |-> "Keyboard", price |-> -1],
     [op |-> "listing_update", price |-> 1],
     [op |-> "listing_update", id |-> <<>>, price |-> 1],
     [op |-> "listing_remove"],
     [op |-> "offer_send", amount |-> 1],
     [op |-> "offer_send", listing_id |-> L1],
     [op |-> "offer_counter", offer_id |-> O1, amount |-> 2],
     [op |-> "offer_counter", listing_id |-> L1, amount |-> 2],
     [op |-> "offer_counter", listing_id |-> L1, offer_id |-> O1],
     [op |-> "offer_accept", offer_id |-> O1],
     [op |-> "offer_accept", listing_id |-> L1],
     [op |-> "offer_decline", offer_id |-> O1],
     [op |-> "offer_decline", listing_id |-> L1],
     [op |-> "rule_set"],
     [op |-> "rule_set", listing_id |-> L1],
     [op |-> "rule_delete"]}

ReadCmds ==
    {[op |-> "listing_list"], [op |-> "listing_list", limit |-> 1],
     [op |-> "listing_list", mine |-> TRUE], [op |-> "listing_list", max_price |-> 1],
     [op |-> "listing_get", id |-> L1], [op |-> "listing_get"],
     [op |-> "deal_list"], [op |-> "deal_list", mine |-> TRUE],
     [op |-> "deal_get", id |-> D1], [op |-> "deal_get"],
     [op |-> "rule_list"]}

\* the rule commands that Spec leaves out: the other shapes of rule_set, and
\* rule_delete
MoreRules ==
    {[op |-> "rule_set", listing_id |-> L1, auto_accept_above |-> 1],
     [op |-> "rule_set", listing_id |-> L1, auto_counter_ratio |-> 1],
     [op |-> "rule_delete", rule_id |-> R1]}

\* rule_set commands with two shapes at once, or with a floor or a ratio and
\* no listing
MixedRules ==
    {[op |-> "rule_set", auto_buy_below |-> 2, listing_id |-> L1, auto_accept_above |-> 1],
     [op |-> "rule_set", listing_id |-> L1, auto_accept_above |-> 1, auto_counter_ratio |-> 90],
     [op |-> "rule_set", auto_accept_above |-> 1],
     [op |-> "rule_set", auto_counter_ratio |-> 90]}

OtherInputs ==
    {[kind |-> "badjson"], [kind |-> "null"], [kind |-> "scalar"],
     ObjectCmd(EmptyRec), ObjectCmd([op |-> "bogus"])}

RouterInputs ==
    {ObjectCmd(cmd) : cmd \in MutatingCmds \cup MoreRules \cup MixedRules
                              \cup RejectedCmds \cup ReadCmds}
    \cup OtherInputs

\* the commands that a validation rule rejects, and the read commands
FailsValidation(raw) == raw.kind = "object" /\ raw.cmd \in RejectedCmds
IsRead(raw) == raw.kind = "object" /\ raw.cmd \in ReadCmds
IsMutating(raw) == raw.kind = "object" /\ raw.cmd \in MutatingCmds \cup MoreRules

Call ==
    \E self \in Peers, raw \in RouterInputs :
       /\ request.kind = "none"
       /\ Dispatch(self, raw, view, now).entries # <<>> => now <= MaxRouterCmds
       /\ raw.kind = "object" /\ Has(raw.cmd, "op") => Allowed(raw.cmd)
       /\ Handle(self, raw)

\* the caller has its reply; the next command can be handled
Return ==
    /\ request.kind # "none"
    /\ caller' = "nobody"
    /\ request' = [kind |-> "none"]
    /\ reply' = NoReply
    /\ outbox' = <<>>
    /\ UNCHANGED <<contractVars, pending, applyFault, now, replayVars, marketVars>>

NextRouter == Call \/ Return \/ ApplyNode

SpecRouter == Init /\ [][NextRouter]_vars

\* ------------------------------------- the host replays the log into a
\* fresh View in the same process
ApplyLogged == ApplyHead /\ log' = Append(log, Head(pending))

Replay ==
    /\ replays = 0
    /\ pending = <<>>
    /\ log # <<>>
    /\ firstView' = view
    /\ view' = EmptyRec
    /\ pending' = log
    /\ log' = <<>>
    /\ replays' = 1
    /\ UNCHANGED <<listingSeq, offerSeq, dealSeq, ruleSeq, applyFault, now, callVars,
                   marketVars>>

SubmitOnce == replays = 0 /\ SubmitUpTo(MaxReplayCmds)

NextReplay == SubmitOnce \/ ApplyLogged \/ Replay

SpecReplay == Init /\ [][NextReplay]_vars

\* ------------------------------------------ peers that run the rule engine
AgentCmds ==
    {[op |-> "listing_post", title |-> "Keyboard", price |-> 100]}
    \cup {[op |-> "rule_set", auto_buy_below |-> 100],
          [op |-> "rule_set", auto_buy_below |-> 99],
          [op |-> "rule_set", category |-> "books", auto_buy_below |-> 100],
          [op |-> "rule_set", listing_id |-> L1, auto_accept_above |-> 90],
          [op |-> "rule_set", listing_id |-> L1, auto_counter_ratio |-> 90]}
    \cup {[op |-> "offer_send", listing_id |-> L1, amount |-> a] : a \in {85, 92}}
    \cup {[op |-> "rule_delete", rule_id |-> R1]}

\* new Market(protocol, address, true)
RunAgent ==
    \E p \in Peers :
       /\ market[p] = Market(FALSE)
       /\ market' = [market EXCEPT ![p] = Market(TRUE)]
       /\ UNCHANGED <<contractVars, pending, applyFault, now, callVars, replayVars, event, app>>

Command ==
    \E self \in Peers, cmd \in AgentCmds :
       /\ now <= MaxAgentCmds
       /\ Allowed(cmd)
       /\ Handle(self, ObjectCmd(cmd))

Deliver == \E p \in Peers, i \in DOMAIN outbox : Receive(p, i)

NextAgent == RunAgent \/ Command \/ ApplyNode \/ Deliver

SpecAgent == Init /\ [][NextAgent]_vars

\* ------------------------------------------- listings and their prices
PriceCmds ==
    {[op |-> "listing_post", title |-> "Keyboard", price |-> p] : p \in {-1, 0, 2}}
    \cup {[op |-> "listing_update", id |-> L1, price |-> p] : p \in {-1, 0, 1}}
    \cup {[op |-> "listing_update", id |-> L1, desc |-> "used"]}

PostOrUpdate ==
    \E self \in Peers, cmd \in PriceCmds :
       /\ now <= MaxPriceCmds
       /\ now = 1 => self = "S"
       /\ Allowed(cmd)
       /\ Handle(self, ObjectCmd(cmd))

NextPrices == PostOrUpdate \/ ApplyNode

SpecPrices == Init /\ [][NextPrices]_vars

\* ------------------------------- index.js: the seller's auto-responder
L2 == nextId("LST", 2)

\* bid / ask >= pct / 100 in floating point: 0 / 0 is NaN, which compares
\* false, and bid / 0 is Infinity for a positive bid; otherwise the quotient
\* is compared exactly, which holds for integers of this size
RatioAtLeast(bid, ask, pct) ==
    IF ask = 0 THEN bid > 0 ELSE bid * 100 >= pct * ask

\* Math.round(ask * 0.95), halves upward
CounterPrice(ask) == (ask * 95 + 50) \div 100

\* what one iteration of the loop does with an offer
Respond(offer, listings) ==
    IF offer.status # "PENDING" /\ offer.status # "COUNTERED" THEN [do |-> "none"]
    ELSE IF offer.listingId \notin DOMAIN listings THEN [do |-> "none"]
    ELSE LET ask == listings[offer.listingId].price
             bid == offer.currentPrice
         IN IF RatioAtLeast(bid, ask, 90) THEN [do |-> "accept"]
            ELSE IF RatioAtLeast(bid, ask, 80)
            THEN [do |-> "counter", at |-> CounterPrice(ask)]
            ELSE [do |-> "decline"]

\* app.acceptOffer, app.counterOffer and app.declineOffer on an offer
Responded(offer, attempt) ==
    CASE attempt.do = "accept" -> [offer EXCEPT !.status = "ACCEPTED"]
      [] attempt.do = "counter" -> [offer EXCEPT !.status = "COUNTERED",
                                                 !.currentPrice = attempt.at]
      [] attempt.do = "decline" -> [offer EXCEPT !.status = "DECLINED"]
      [] OTHER -> offer

\* the seller's setInterval callback: every incoming offer in turn
SellerTick ==
    LET attempts == [i \in DOMAIN app.incomingOffers |->
                       Respond(app.incomingOffers[i], app.listings)]
    IN /\ app.incomingOffers # <<>>
       /\ app' = [app EXCEPT !.incomingOffers =
                     [i \in DOMAIN @ |-> Responded(@[i], attempts[i])]]
       /\ event' = [kind |-> "tick", attempts |-> attempts]
       /\ UNCHANGED <<contractVars, pending, applyFault, now, callVars, replayVars, market>>

\* the app learns of a listing of its own, at some asking price
Discover ==
    \E ask \in 0..MaxAsk :
       /\ L1 \notin DOMAIN app.listings
       /\ app' = [app EXCEPT !.listings = (L1 :> [price |-> ask])]
       /\ UNCHANGED <<contractVars, pending, applyFault, now, callVars, replayVars,
                      market, event>>

\* an offer comes in, on the listing or on one the app does not know
Incoming ==
    \E l \in {L1, L2}, bid \in 0..MaxBid :
       /\ Len(app.incomingOffers) < MaxIncoming
       /\ app' = [app EXCEPT !.incomingOffers =
                     Append(@, [listingId |-> l, offerPrice |-> bid, currentPrice |-> bid,
                                status |-> "PENDING"])]
       /\ UNCHANGED <<contractVars, pending, applyFault, now, callVars, replayVars,
                      market, event>>

\* the buyer withdraws an offer between two ticks
Withdrawn ==
    \E i \in DOMAIN app.incomingOffers :
       /\ app.incomingOffers[i].status \in {"PENDING", "COUNTERED"}
       /\ app' = [app EXCEPT !.incomingOffers[i].status = "WITHDRAWN"]
       /\ UNCHANGED <<contractVars, pending, applyFault, now, callVars, replayVars,
                      market, event>>

NextResponder == Discover \/ Incoming \/ Withdrawn \/ SellerTick

SpecResponder == Init /\ [][NextResponder]_vars

\* ------------------------------------ an agent with several rules at once
EngineCmds ==
    {[op |-> "listing_post", title |-> "Keyboard", price |-> 100]}
    \cup {[op |-> "rule_set", listing_id |-> L1, auto_accept_above |-> f] : f \in {80, 90}}
    \cup {[op |-> "rule_set", listing_id |-> L1, auto_counter_ratio |-> 90]}
    \cup {[op |-> "offer_send", listing_id |-> L1, amount |-> a] : a \in {85, 92}}

Instruct ==
    \E self \in Peers, cmd \in EngineCmds :
       /\ now <= MaxEngineCmds
       /\ now = 1 => self = "S"
       /\ cmd.op = "rule_set" \/ Allowed(cmd)
       /\ Handle(self, ObjectCmd(cmd))

NextEngine == RunAgent \/ Instruct \/ ApplyNode \/ Deliver

SpecEngine == Init /\ [][NextEngine]_vars

\* ------------------------------ a buyer's agent with several auto_buy rules
BuyerCmds ==
    {[op |-> "listing_post", title |-> "Keyboard", price |-> 100]}
    \cup {[op |-> "rule_set", auto_buy_below |-> b] : b \in {99, 100}}

\* the buyer sets rules and the seller posts, one command at a time
Stock ==
    \E self \in Peers, cmd \in BuyerCmds :
       /\ now <= MaxBuyerCmds
       /\ self = (IF cmd.op = "rule_set" THEN "B" ELSE "S")
       /\ pending = <<>>
       /\ Handle(self, ObjectCmd(cmd))

NextBuyer == RunAgent \/ Stock \/ ApplyNode \/ Deliver

SpecBuyer == Init /\ [][NextBuyer]_vars

\* ------------------------------------- several offers on the one listing
DealCmds ==
    {[op |-> "listing_post", title |-> "Keyboard", price |-> 2],
     [op |-> "offer_send", listing_id |-> L1, amount |-> 1]}
    \cup {[op |-> "offer_accept", listing_id |-> L1, offer_id |-> o] : o \in {O1, O2}}

SendOrAccept ==
    \E self \in Peers, cmd \in DealCmds :
       /\ now <= MaxDealCmds
       /\ now = 1 => self = "S"
       /\ Allowed(cmd)
       /\ Handle(self, ObjectCmd(cmd))

NextDeals == SendOrAccept \/ ApplyNode

SpecDeals == Init /\ [][NextDeals]_vars

\* ------------------------------------------ a process that is restarted
\* the module is loaded again: its counters start at 0, the View is on disk
Restart ==
    /\ listingSeq + offerSeq + dealSeq + ruleSeq > 0
    /\ listingSeq' = 0 /\ offerSeq' = 0 /\ dealSeq' = 0 /\ ruleSeq' = 0
    /\ UNCHANGED <<view, pending, applyFault, now, callVars, replayVars, marketVars>>

NextRestart == Submit \/ ApplyNode \/ Restart

SpecRestart == Init /\ [][NextRestart]_vars

\* ------------------------------- rules and listings, set and soft-deleted
R2 == nextId("RULE", 2)
\* the text rule:S, which is a legal listing_id
RulesOfS == Join(Word("rule"), Word("S"))

RuleCmds ==
    {[op |-> "rule_set", auto_buy_below |-> 2],
     [op |-> "rule_set", listing_id |-> L1, auto_accept_above |-> 1]}
    \cup {[op |-> "rule_delete", rule_id |-> r] : r \in {R1, R2}}
    \cup {[op |-> "listing_post", title |-> "Keyboard", price |-> 2],
          [op |-> "listing_remove", id |-> L1],
          [op |-> "offer_send", listing_id |-> L1, amount |-> 1],
          [op |-> "offer_send", listing_id |-> RulesOfS, amount |-> 1],
          [op |-> "offer_accept", listing_id |-> L1, offer_id |-> O1]}

SetOrDelete ==
    \E self \in Peers, cmd \in RuleCmds :
       /\ now <= MaxRuleCmds
       /\ now = 1 => self = "S"
       /\ Handle(self, ObjectCmd(cmd))

NextRules == SetOrDelete \/ ApplyNode

SpecRules == Init /\ [][NextRules]_vars

\* ---------------------------------------------- the rate limiter alone
\* time passes
Tick ==
    /\ now < MaxClock
    /\ now' = now + 1
    /\ UNCHANGED <<contractVars, pending, applyFault, callVars, replayVars, marketVars>>

\* peer p asks its rate limiter
Trigger ==
    \E p \in Peers :
       LET r == _checkRateLimit(market[p].dealTimestamps, now, MaxPerHour)
       IN /\ market' = [market EXCEPT ![p].dealTimestamps = r[2],
                                      ![p].admitted = IF r[1] THEN Append(@, now) ELSE @]
          /\ event' = [kind |-> "trigger", to |-> p, answer |-> r[1]]
          /\ UNCHANGED <<contractVars, pending, applyFault, now, callVars, replayVars, app>>

NextRate == Tick \/ Trigger

SpecRate == Init /\ [][NextRate]_vars

\* ------------------------------------------------------------ properties
\* the entry that the next apply step takes, when it is one of ops
HeadIs(ops) ==
    /\ pending # <<>>
    /\ Head(pending).kind = "json"
    /\ "op" \in DOMAIN Head(pending).value
    /\ Head(pending).value.op \in ops
\* this step is an iteration of apply
Applying == pending # <<>> /\ pending' = Tail(pending)
IsDealKey(k) == Len(k) = 1 /\ k[1][1] = "DEAL"
DealKeys(v) == {k \in DOMAIN v : IsDealKey(k)}
IsOfferRecord(rec) == "history" \in DOMAIN rec
OfferKeys(v) == {k \in DOMAIN v : IsOfferRecord(v[k])}

\* C1: replaying the same ordered log from an empty View a second time gives
\* the same View, allocated ids included.
C1_ReplayGivesSameView == (replays = 1 /\ pending = <<>>) => view = firstView

\* C2: no two Deals name the same (listingId, offerId), and a Deal comes into
\* being only in the apply step of an offer_accept that moves the Offer under
\* that listingId and offerId from pending to accepted.
C2_AtMostOneDealPerOffer ==
    [][ /\ \A a, b \in DealKeys(view') :
             (view'[a].listingId = view'[b].listingId /\ view'[a].offerId = view'[b].offerId)
                => a = b
        /\ Cardinality(DealKeys(view') \ DOMAIN view) <= 1
        /\ \A k \in DealKeys(view') \ DOMAIN view :
             /\ HeadIs({"offer_accept"})
             /\ Applying
             /\ LET e == Head(pending).value
                    key == e.listingId \o e.offerId
                IN /\ key \in DOMAIN view
                   /\ view[key].status = "pending"
                   /\ view'[key].status = "accepted"
                   /\ view'[k].listingId = e.listingId
                   /\ view'[k].offerId = e.offerId
      ]_vars

\* a second offer_accept for LST-001 / OFR-001 was submitted after the one
\* that made the Deal and has been applied
C2_Witness ==
    /\ pending = <<>>
    /\ request = ObjectCmd([op |-> "offer_accept", listing_id |-> L1, offer_id |-> O1])
    /\ \E k \in DealKeys(view) :
          /\ view[k].listingId = L1 /\ view[k].offerId = O1
          /\ view[k].closedAt < now - 1

\* C3: an Offer's status changes only from pending to accepted or declined,
\* and an offer_counter, offer_accept or offer_decline entry for an Offer that
\* is accepted or declined changes nothing in the View and makes no Deal.
C3_OfferLeavesPendingOnce ==
    [][ /\ \A k \in OfferKeys(view) :
             /\ k \in DOMAIN view'
             /\ \/ view'[k].status = view[k].status
                \/ view[k].status = "pending" /\ view'[k].status \in {"accepted", "declined"}
        /\ ( /\ HeadIs({"offer_counter", "offer_accept", "offer_decline"})
             /\ Applying
             /\ LET e == Head(pending).value
                    key == e.listingId \o e.offerId
                IN /\ key \in OfferKeys(view)
                   /\ view[key].status \in {"accepted", "declined"} )
           => UNCHANGED contractVars
      ]_vars

\* C4: a listing_update or listing_remove entry whose id names no record, or
\* names a record whose seller is not the entry's submitter, leaves the
\* View unchanged.
C4_OnlySellerChangesListing ==
    [][ ( /\ HeadIs({"listing_update", "listing_remove"})
          /\ Applying
          /\ LET e == Head(pending).value
             IN \/ e.id \notin DOMAIN view
                \/ "seller" \notin DOMAIN view[e.id]
                \/ view[e.id].seller # e.seller )
        => UNCHANGED contractVars
      ]_vars

\* a listing_remove for LST-001 was the last command, it has been applied,
\* and the Listing is still active: its submitter was not the seller
C4_Witness ==
    /\ pending = <<>>
    /\ request = ObjectCmd([op |-> "listing_remove", id |-> L1])
    /\ L1 \in DOMAIN view
    /\ view[L1].status = "active"
    /\ view[L1].seller # caller
    /\ view[L1].createdAt < now - 1

\* C5: a Deal record never changes once it is written.
C5_DealImmutable == [][ \A k \in DealKeys(view) : k \in DOMAIN view' /\ view'[k] = view[k] ]_vars

\* the number that the digits of an id spell
RECURSIVE NumberOf(_)
NumberOf(ds) == IF ds = <<>> THEN 0 ELSE 10 * NumberOf(SubSeq(ds, 1, Len(ds) - 1)) + ds[Len(ds)]
\* the kind and the number of the id that ends a key
KindOf(k) == k[Len(k)][1]
SeqNoOf(k) == NumberOf(k[Len(k)][2])
CreateOps == {"listing_post", "offer_send", "rule_set"}
\* the fields in which an entry would carry the id of the entity it creates
IdFieldOf(op) ==
    CASE op = "listing_post" -> {"id", "listingId"}
      [] op = "offer_send" -> {"id", "offerId"}
      [] op = "rule_set" -> {"id", "ruleId"}
      [] op = "offer_accept" -> {"id", "dealId"}
      [] OTHER -> {}

C7_RejectedBeforeSubmission ==
    [][ (FailsValidation(request') /\ Handle(caller', request')) =>
           /\ DOMAIN reply' = {"ok", "error"}
           /\ reply'.ok = FALSE
           /\ pending' = pending
           /\ outbox' = <<>>
      ]_vars

\* an offer_accept without an offer id has just been refused while an entry
\* of an earlier command waits in the log
C7_Witness ==
    /\ request = ObjectCmd([op |-> "offer_accept", listing_id |-> L1])
    /\ reply = Err("offer_accept requires listing_id and offer_id")
    /\ outbox = <<>>
    /\ pending # <<>>

\* the field of an entry that names its submitter
SubmitterField(op) ==
    CASE op \in {"listing_post", "listing_update", "listing_remove"} -> "seller"
      [] op = "offer_send" -> "buyer"
      [] op \in {"offer_counter", "offer_accept", "offer_decline"} -> "by"
      [] op \in {"rule_set", "rule_delete"} -> "owner"
SubmitterOf(entry) ==
    IF SubmitterField(entry.op) \in DOMAIN entry THEN entry[SubmitterField(entry.op)]
    ELSE "undefined"

\* C8: a mutating command that passes validation appends exactly one entry,
\* which names the caller as its submitter, and does not touch the View; a
\* read command appends nothing and does not touch the View; the View
\* changes in apply steps only.
C8_OneEntryPerCommand ==
    [][ /\ (IsMutating(request') /\ Handle(caller', request')) =>
             /\ Len(pending') = Len(pending) + 1
             /\ SubSeq(pending', 1, Len(pending)) = pending
             /\ pending'[Len(pending')].kind = "json"
             /\ pending'[Len(pending')].value.op = request'.cmd.op
             /\ SubmitterOf(pending'[Len(pending')].value) = caller'
             /\ reply'.ok
             /\ UNCHANGED contractVars
        /\ (IsRead(request') /\ Handle(caller', request')) =>
             /\ pending' = pending
             /\ UNCHANGED contractVars
        /\ view' # view => Applying
      ]_vars

\* a listing_post was submitted and applied without the Router writing the
\* View, and a read has then returned the Listing
C8_Witness ==
    /\ request = ObjectCmd([op |-> "listing_list"])
    /\ "data" \in DOMAIN reply
    /\ Len(reply.data) = 1
    /\ reply.data[1] = view[L1]
    /\ view[L1].seller # caller

\* C9: handle never raises; every reply is {ok:true,...} or {ok:false,error}.
C9_HandleNeverRaises == "ok" \in DOMAIN reply \/ reply = NoReply

\* the nodes that do not decode to an entry with a known op and its fields
Malformed(node) ==
    \/ node.kind # "json"
    \/ "op" \notin DOMAIN node.value
    \/ node \in RawNodes

\* C10: apply never raises, and the apply step of a malformed entry consumes
\* it and leaves the View unchanged.
C10_MalformedEntrySkipped ==
    [][ /\ ~applyFault'
        /\ (pending # <<>> /\ Malformed(Head(pending)) /\ pending' # pending /\ Len(pending') <= Len(pending))
             => (pending' = Tail(pending) /\ UNCHANGED contractVars)
      ]_vars

\* the triggers of peer p that the limiter admitted less than a window ago
Recent(p) ==
    {i \in DOMAIN market[p].admitted : now - market[p].admitted[i] < DEAL_RATE_WINDOW_MS}

\* C11: a trigger is suppressed exactly when MaxPerHour triggers were admitted
\* within the last window; one that was admitted a full window ago or earlier
\* no longer counts.
C11_RateLimiter ==
    [][ \A p \in Peers :
          (now' = now /\ event'.kind = "trigger" /\ event'.to = p
             /\ (event' # event \/ market'[p] # market[p])) =>
            /\ event'.answer = (Cardinality(Recent(p)) < MaxPerHour)
            /\ market'[p].admitted =
                  IF event'.answer THEN Append(market[p].admitted, now)
                  ELSE market[p].admitted
      ]_vars

\* a trigger was suppressed after the limiter had admitted more triggers than
\* fit into one window, so capacity was used up, freed and used up again
C11_Witness ==
    /\ event.kind = "trigger"
    /\ ~event.answer
    /\ Len(market[event.to].admitted) > MaxPerHour

\* the keys of the Rules of one type that p owns and has not deleted
RulesOf(p, type) ==
    {k \in DOMAIN view :
       /\ Len(k) = 3 /\ k[1] = Seg("rule", <<>>)
       /\ Has(view[k], "owner") /\ view[k].owner = p
       /\ Has(view[k], "type") /\ view[k].type = type
       /\ ~Has(view[k], "deleted")}
\* those among them that are about listing l
RulesOn(p, type, l) ==
    {k \in RulesOf(p, type) :
       Has(view[k].params, "listingId") /\ view[k].params.listingId = l}
\* the entries one step appends to the log
Appended == {pending'[k].value : k \in (Len(pending) + 1)..Len(pending')}
IsListingId(id) == Len(id) = 1 /\ StartsWith(id, "LST")

\* C12: an agent that receives the Router's LISTING_POST and owns a matching
\* auto_buy rule joins the listing's negotiation channel and an offer_send
\* for that listing at the asking price is appended, once for each such rule.
C12_AutoBuy ==
    [][ \A p \in Peers, i \in DOMAIN outbox :
          LET msg == outbox[i].msg
              matching == {k \in RulesOf(p, "auto_buy") :
                             /\ ~TruthyText(view[k].params, "category")
                                  \/ view[k].params.category = msg.category
                             /\ view[k].params.max_price >= msg.price}
          IN (/\ Receive(p, i)
              /\ msg.event = "LISTING_POST"
              /\ market[p].agentMode
              /\ matching # {}
              /\ Cardinality(Recent(p)) + Cardinality(matching) <= AutoBuyLimit) =>
               /\ Len(pending') = Len(pending) + Cardinality(matching)
               /\ \A e \in Appended :
                     /\ e.op = "offer_send" /\ e.buyer = p /\ e.amount = msg.price
                     /\ IsListingId(e.listingId)
                     /\ DealChannel(e.listingId) \in market'[p].joined
      ]_vars

\* C13: an agent that owns an auto_accept rule for listing l with floor f and
\* receives the Router's OFFER_SENT on l's channel appends an offer_accept for
\* that offer when the amount is at least f, and none when it is below f.
C13_AutoAccept ==
    [][ \A p \in Peers, i \in DOMAIN outbox :
          LET msg == outbox[i].msg
              l == outbox[i].channel.id
              rules == RulesOn(p, "auto_accept", l)
          IN (/\ Receive(p, i)
              /\ msg.event = "OFFER_SENT"
              /\ market[p].agentMode
              /\ rules # {}
              /\ RulesOn(p, "auto_counter", l) = {}) =>
               IF \E k \in rules : msg.amount >= view[k].params.min_price
               THEN \E e \in Appended :
                       /\ e.op = "offer_accept" /\ e.by = p
                       /\ e.listingId = l /\ Len(e.offerId) = 1
               ELSE Appended = {}
      ]_vars

\* C14: an agent that owns an auto_counter rule with ratio r for a listing
\* with asking price a counters an offer below floor(a * r) at exactly that
\* floor, and accepts an offer at or above it.
C14_AutoCounter ==
    [][ \A p \in Peers, i \in DOMAIN outbox :
          LET msg == outbox[i].msg
              l == outbox[i].channel.id
              rules == RulesOn(p, "auto_counter", l)
          IN (/\ Receive(p, i)
              /\ msg.event = "OFFER_SENT"
              /\ market[p].agentMode
              /\ rules # {}
              /\ RulesOn(p, "auto_accept", l) = {}
              /\ Present(view, l) /\ Has(view[l], "price")) =>
               \A k \in rules :
                  LET floor == (view[l].price * view[k].params.ratio) \div 100
                  IN \E e \in Appended :
                        /\ e.by = p /\ e.listingId = l
                        /\ IF msg.amount < floor
                           THEN e.op = "offer_counter" /\ e.amount = floor
                           ELSE e.op = "offer_accept"
      ]_vars

\* the parameter shapes a rule_set command supplies
ShapesOf(cmd) == {"auto_buy_below", "auto_accept_above", "auto_counter_ratio"} \cap DOMAIN cmd
\* not exactly one shape, or a floor or a ratio without the listing it is for
IllShaped(cmd) ==
    \/ Cardinality(ShapesOf(cmd)) # 1
    \/ ShapesOf(cmd) # {"auto_buy_below"} /\ ~TruthyId(cmd, "listing_id")

\* C15: a rule_set command that does not have exactly one of the three
\* parameter shapes is refused and appends no entry.
C15_RuleSetShapes ==
    [][ (/\ request'.kind = "object"
         /\ Has(request'.cmd, "op") /\ request'.cmd.op = "rule_set"
         /\ IllShaped(request'.cmd)
         /\ Handle(caller', request')) =>
           /\ reply'.ok = FALSE
           /\ pending' = pending
      ]_vars

\* the notification each mutating command is to publish
EventOf(op) ==
    CASE op = "listing_post" -> "LISTING_POST"
      [] op = "listing_update" -> "LISTING_UPDATE"
      [] op = "listing_remove" -> "LISTING_REMOVE"
      [] op = "offer_send" -> "OFFER_SENT"
      [] op = "offer_counter" -> "OFFER_COUNTER"
      [] op = "offer_accept" -> "OFFER_ACCEPTED"
      [] op = "offer_decline" -> "OFFER_DECLINED"
ListingOps == {"listing_post", "listing_update", "listing_remove"}
OfferOps == {"offer_send", "offer_counter", "offer_accept", "offer_decline"}

\* C16: a successful listing command publishes its notification on the
\* public channel, a successful offer command publishes its notification on
\* the channel of its listing and on no other listing's channel, and what is
\* published goes with an appended entry.
C16_NotificationPublished ==
    [][ (/\ IsMutating(request')
         /\ request'.cmd.op \in ListingOps \cup OfferOps
         /\ Handle(caller', request')) =>
           LET cmd == request'.cmd
               where == IF cmd.op \in ListingOps THEN PublicChannel
                        ELSE DealChannel(cmd.listing_id)
           IN /\ Len(pending') = Len(pending) + 1
              /\ \E i \in DOMAIN outbox' :
                    outbox'[i].channel = where /\ outbox'[i].msg.event = EventOf(cmd.op)
              /\ \A i \in DOMAIN outbox' :
                    outbox'[i].channel \in {PublicChannel, where}
      ]_vars

\* the entry that the next apply step takes
NextEntry == Head(pending).value

\* C17: offer_accept applied to a pending Offer whose Listing exists makes the
\* Offer accepted, creates exactly one Deal, with the Offer's current amount
\* as finalPrice and the Offer's listingId and offerId, and makes the Listing
\* sold with that Deal's id as dealId.
C17_AcceptMakesDeal ==
    [][ (/\ Applying /\ HeadIs({"offer_accept"})
         /\ Present(view, OfferKey(NextEntry))
         /\ view[OfferKey(NextEntry)].status = "pending"
         /\ IsListingId(NextEntry.listingId)
         /\ Present(view, NextEntry.listingId)) =>
           LET e == NextEntry
               key == OfferKey(e)
               made == DealKeys(view') \ DealKeys(view)
           IN /\ view'[key].status = "accepted"
              /\ Cardinality(made) = 1
              /\ \A d \in made :
                    /\ view'[d].id = d
                    /\ view'[d].finalPrice = view[key].amount
                    /\ view'[d].listingId = e.listingId
                    /\ view'[d].offerId = e.offerId
                    /\ view'[e.listingId].status = "sold"
                    /\ view'[e.listingId].dealId = d
      ]_vars

\* an Offer sent at 1 and countered at 2 was accepted: the Deal has the
\* countered amount and the Listing is sold to it
C17_Witness ==
    /\ Present(view, L1) /\ Present(view, D1)
    /\ view[L1].status = "sold" /\ view[L1].dealId = D1
    /\ view[D1].finalPrice = 2
    /\ Len(view[L1O1].history) = 2

\* C18: offer_counter applied to a pending Offer sets its amount, leaves it
\* pending and appends one {amount, by, at} element to its history, the
\* earlier elements staying as they were; applied to a missing Offer or to one
\* that is not pending it changes nothing.
C18_CounterAppendsHistory ==
    [][ (Applying /\ HeadIs({"offer_counter"})) =>
           LET e == NextEntry
               key == OfferKey(e)
           IN IF Present(view, key) /\ Has(view[key], "status")
                 /\ view[key].status = "pending"
              THEN /\ view'[key].amount = e.amount
                   /\ view'[key].status = "pending"
                   /\ view'[key].history =
                         Append(view[key].history,
                                [amount |-> e.amount, by |-> e.by, at |-> e.ts])
                   /\ DOMAIN view' = DOMAIN view
                   /\ \A k \in DOMAIN view \ {key} : view'[k] = view[k]
              ELSE view' = view
      ]_vars

\* the Offer sent by one peer at 1 was countered by the other at 2 and is
\* still pending, with both steps in its history
C18_Witness ==
    /\ Present(view, L1O1)
    /\ view[L1O1].status = "pending"
    /\ view[L1O1].amount = 2
    /\ Len(view[L1O1].history) = 2
    /\ view[L1O1].history[1].amount = 1
    /\ view[L1O1].history[2].by # view[L1O1].history[1].by

\* a record that rule_set has put
IsRule(r) == Has(r, "owner") /\ Has(r, "type") /\ Has(r, "params")
\* the Rules of p that are not flagged deleted, in v
LiveRules(p, v) ==
    {v[k] : k \in {j \in DOMAIN v : IsRule(v[j]) /\ v[j].owner = p /\ ~Has(v[j], "deleted")}}
Listed(p, v) ==
    LET data == _ruleList(p, v).reply.data
    IN {data[i] : i \in DOMAIN data}

\* C19: rule_delete changes nothing unless the submitter owns a Rule with
\* that id, and then it only sets that Rule's deleted flag; no Rule of another
\* owner changes; rule_list gives each peer exactly its own Rules that are
\* not flagged deleted.
C19_OwnRulesOnly ==
    [][ /\ (Applying /\ HeadIs({"rule_delete"})) =>
             LET e == NextEntry
                 owned == {k \in DOMAIN view :
                             /\ IsRule(view[k]) /\ view[k].owner = e.owner
                             /\ view[k].id = e.ruleId}
             IN /\ DOMAIN view' = DOMAIN view
                /\ \A k \in DOMAIN view \ owned : view'[k] = view[k]
                /\ \A k \in owned : view'[k] = Set(view[k], "deleted", TRUE)
        /\ \A p \in Peers :
             /\ Listed(p, view') = LiveRules(p, view')
             /\ Len(_ruleList(p, view').reply.data) = Cardinality(LiveRules(p, view'))
      ]_vars

\* S has deleted its own rule and then asked to delete B's: B's rule is still
\* listed for B, S's is flagged and listed for nobody
C19_Witness ==
    /\ pending = <<>>
    /\ caller = "S"
    /\ request = ObjectCmd([op |-> "rule_delete", rule_id |-> R2])
    /\ Present(view, RuleKey("S", R1)) /\ Has(view[RuleKey("S", R1)], "deleted")
    /\ Present(view, RuleKey("B", R2)) /\ ~Has(view[RuleKey("B", R2)], "deleted")
    /\ view[RuleKey("B", R2)].createdAt < now - 2

\* C20: no step erases a key of the View.
C20_NoKeyErased == [][DOMAIN view \subseteq DOMAIN view']_vars

\* a Listing was removed and a Rule deleted, and both records are in place
C20_Witness ==
    /\ Present(view, L1) /\ view[L1].status = "removed"
    /\ \E k \in DOMAIN view : IsRule(view[k]) /\ Has(view[k], "deleted")

\* C21: also after a restart, a step that creates a Listing, an Offer, a Rule
\* or a Deal adds a key whose number is above every number of its kind in the
\* View and leaves every record of the View as it was (an accept leaves
\* every Deal as it was).
C21_FreshIdsAfterRestart ==
    [][ /\ (Applying /\ HeadIs(CreateOps)) =>
             /\ \E k \in DOMAIN view' \ DOMAIN view :
                   \A o \in DOMAIN view : KindOf(o) = KindOf(k) => SeqNoOf(o) < SeqNoOf(k)
             /\ \A k \in DOMAIN view : k \in DOMAIN view' /\ view'[k] = view[k]
        /\ (Applying /\ HeadIs({"offer_accept"}) /\ IsPendingAt(view, OfferKey(NextEntry))) =>
             /\ \E k \in DealKeys(view') \ DealKeys(view) :
                   \A o \in DealKeys(view) : SeqNoOf(o) < SeqNoOf(k)
             /\ \A k \in DealKeys(view) : k \in DOMAIN view' /\ view'[k] = view[k]
      ]_vars

\* C22: offer_accept applied to a pending Offer on a Listing that is already
\* sold is carried out all the same: the Offer becomes accepted, one more Deal
\* names the Listing, and the Listing's dealId is overwritten with the new
\* Deal's id.
C22_SoldListingAcceptsAgain ==
    [][ (/\ Applying /\ HeadIs({"offer_accept"})
         /\ Present(view, OfferKey(NextEntry))
         /\ view[OfferKey(NextEntry)].status = "pending"
         /\ IsListingId(NextEntry.listingId)
         /\ Present(view, NextEntry.listingId)
         /\ view[NextEntry.listingId].status = "sold") =>
           LET e == NextEntry
               made == DealKeys(view') \ DealKeys(view)
           IN /\ view'[OfferKey(e)].status = "accepted"
              /\ Cardinality(made) = 1
              /\ \A d \in made : view'[d].listingId = e.listingId
              /\ view'[e.listingId].dealId \in made
              /\ view'[e.listingId].dealId # view[e.listingId].dealId
              /\ view[view[e.listingId].dealId].listingId = e.listingId
      ]_vars

\* two Offers on the one Listing are accepted and two Deals name the Listing,
\* whose dealId names the second of them
C22_Witness ==
    /\ Present(view, Join(L1, O1)) /\ view[Join(L1, O1)].status = "accepted"
    /\ Present(view, Join(L1, O2)) /\ view[Join(L1, O2)].status = "accepted"
    /\ Cardinality({d \in DealKeys(view) : view[d].listingId = L1}) = 2
    /\ Present(view, L1) /\ view[L1].status = "sold"
    /\ view[view[L1].dealId].offerId = O2

\* the submitter of the next entry is the buyer of the Offer it names or the
\* seller of that Offer's Listing
IsParty ==
    LET e == NextEntry
        key == OfferKey(e)
        lid == StrField(e, "listingId")
    IN /\ Has(e, "by")
       /\ \/ Present(view, key) /\ Has(view[key], "buyer") /\ view[key].buyer = e.by
          \/ Present(view, lid) /\ Has(view[lid], "seller") /\ view[lid].seller = e.by

\* C23: an offer_accept, offer_counter or offer_decline entry changes the View
\* only if its submitter is the buyer of the Offer or the seller of its
\* Listing, and an accept changes the Listing only if its submitter is the
\* Listing's seller.
C23_OnlyPartiesChangeOffer ==
    [][ /\ (Applying /\ HeadIs({"offer_accept", "offer_counter", "offer_decline"})
             /\ view' # view) => IsParty
        /\ (Applying /\ HeadIs({"offer_accept"})
             /\ Present(view, StrField(NextEntry, "listingId"))
             /\ view'[NextEntry.listingId] # view[NextEntry.listingId]) =>
               /\ Has(view[NextEntry.listingId], "seller")
               /\ Has(NextEntry, "by")
               /\ view[NextEntry.listingId].seller = NextEntry.by
      ]_vars

\* C24: the reply to a well-formed mutating command, the entry it appends and
\* the notification it publishes are the same whatever the View holds: they
\* are what the Router gives, for the same caller, command and time, on the
\* View with every record missing, and the reply is {ok:true}.
C24_ReplyIndependentOfView ==
    [][ (IsMutating(request') /\ Handle(caller', request')) =>
           LET there == Dispatch(caller', request', EmptyRec, now)
           IN /\ reply' = there.reply
              /\ reply'.ok
              /\ outbox' = there.out
              /\ Len(there.entries) = 1
              /\ pending' = Append(pending, JsonNode(there.entries[1]))
      ]_vars

\* an offer_accept for an Offer that is accepted already, from the peer that
\* did not accept it, has been answered {ok:true} and its entry appended
C24_Witness ==
    /\ request = ObjectCmd([op |-> "offer_accept", listing_id |-> L1, offer_id |-> O1])
    /\ Present(view, L1O1) /\ view[L1O1].status = "accepted"
    /\ view[L1O1].acceptedBy # caller
    /\ "ok" \in DOMAIN reply /\ reply.ok
    /\ pending # <<>> /\ pending[Len(pending)].value.op = "offer_accept"

\* C25: offer_send applied, whatever its listingId names, adds one record,
\* under the listingId followed by an OFR id, that is pending, has the
\* submitted amount and a history of the one element {amount, by: buyer,
\* at: ts}, and changes no record that was there.
C25_OfferSendAlwaysCreates ==
    [][ (Applying /\ HeadIs({"offer_send"})) =>
           LET e == NextEntry
               made == DOMAIN view' \ DOMAIN view
           IN /\ Cardinality(made) = 1
              /\ \A k \in made :
                    /\ SubSeq(k, 1, Len(k) - 1) = e.listingId
                    /\ KindOf(k) = "OFR"
                    /\ view'[k].id = <<k[Len(k)]>>
                    /\ view'[k].status = "pending"
                    /\ view'[k].amount = e.amount
                    /\ view'[k].buyer = e.buyer
                    /\ view'[k].history = <<[amount |-> e.amount, by |-> e.buyer, at |-> e.ts]>>
              /\ \A k \in DOMAIN view : view'[k] = view[k]
      ]_vars

\* an Offer is pending on a Listing that was sold or removed before the Offer
\* was sent
C25_Witness ==
    /\ Present(view, L1) /\ view[L1].status \in {"sold", "removed"}
    /\ \E k \in OfferKeys(view) :
          /\ view[k].listingId = L1 /\ view[k].status = "pending"
          /\ \/ Has(view[L1], "soldAt") /\ view[L1].soldAt < view[k].createdAt
             \/ Has(view[L1], "removedAt") /\ view[L1].removedAt < view[k].createdAt

\* the answering commands among the calls of an event handler
Answers(calls) == SelectSeq(calls, LAMBDA c : c.cmd.op \in {"offer_accept", "offer_counter"})

\* rule is scoped to listing l and its condition is met by the offer msg;
\* priced is the reply of listing_get for l
ConditionMet(rule, l, msg, priced) ==
    /\ Has(rule.params, "listingId") /\ rule.params.listingId = l
    /\ \/ rule.type = "auto_accept" /\ msg.amount >= rule.params.min_price
       \/ rule.type = "auto_counter" /\ "ok" \in DOMAIN priced /\ priced.ok

\* the command that rule prescribes for the offer msg on listing l
Prescribed(rule, l, msg, priced, cmd) ==
    IF rule.type = "auto_counter" /\ msg.amount < Floor(priced.data.price, rule.params.ratio)
    THEN /\ cmd.op = "offer_counter" /\ cmd.listing_id = l
         /\ cmd.amount = Floor(priced.data.price, rule.params.ratio)
    ELSE cmd.op = "offer_accept" /\ cmd.listing_id = l

\* C26: for one OFFER_SENT arrival the rule engine issues at most one
\* offer_accept or offer_counter, and the one it issues is what the first rule
\* in rule_list order that is scoped to the listing and whose condition is met
\* prescribes.
C26_FirstMatchingRuleActs ==
    [][ \A p \in Peers, i \in DOMAIN outbox :
          (/\ Receive(p, i)
           /\ outbox[i].msg.event = "OFFER_SENT"
           /\ market[p].agentMode) =>
             LET msg == outbox[i].msg
                 l == outbox[i].channel.id
                 rules == DataOf(_ruleList(p, view).reply)
                 priced == Dispatch(p, ObjectCmd([op |-> "listing_get", id |-> l]),
                                    view, now).reply
                 issued == Answers(event'.calls)
             IN /\ Len(issued) <= 1
                /\ Len(issued) = 1 =>
                     \E n \in DOMAIN rules :
                        /\ ConditionMet(rules[n], l, msg, priced)
                        /\ \A j \in 1..(n - 1) : ~ConditionMet(rules[j], l, msg, priced)
                        /\ Prescribed(rules[n], l, msg, priced, issued[1].cmd)
      ]_vars

\* an agent with two auto_accept rules on the listing, both met by the offer,
\* has issued its one offer_accept
C26_Witness ==
    /\ event.kind = "message" /\ event.msg.event = "OFFER_SENT"
    /\ event.msg.amount = 92
    /\ Len(event.calls) = 2
    /\ Len(DataOf(event.calls[1].reply)) = 2
    /\ \A n \in 1..2 : DataOf(event.calls[1].reply)[n].type = "auto_accept"
    /\ event.calls[2].cmd.op = "offer_accept"

\* C27: in a tick the seller's auto-responder attempts, for every incoming
\* offer that is open and on a known listing with ask a and bid b, exactly
\* the one action of: accept when b >= 90% of a, counter at 95% of a (rounded)
\* when 80% <= b < 90% of a, decline when b < 80% of a; and none for an offer
\* that is not open.
C27_SellerResponds ==
    [][ SellerTick =>
          \A i \in DOMAIN app.incomingOffers :
             LET offer == app.incomingOffers[i]
                 open == offer.status \in {"PENDING", "COUNTERED"}
                 did == event'.attempts[i]
             IN IF open /\ offer.listingId \in DOMAIN app.listings
                THEN LET a == app.listings[offer.listingId].price
                         b == offer.currentPrice
                     IN /\ (10 * b >= 9 * a) => did = [do |-> "accept"]
                        /\ (10 * b >= 8 * a /\ 10 * b < 9 * a) =>
                              /\ did.do = "counter"
                              /\ 100 * did.at <= 95 * a + 50
                              /\ 100 * did.at >= 95 * a - 50
                        /\ (10 * b < 8 * a) => did = [do |-> "decline"]
                ELSE ~open => did = [do |-> "none"]
      ]_vars

\* C28: every Listing in the View has a price, and it is at least 0.
C28_PriceNotNegative ==
    \A k \in DOMAIN view :
       IsListingId(k) => Has(view[k], "price") /\ view[k].price >= 0

\* C29: after every step each Listing's status is active, sold or removed,
\* and a Listing that was sold or removed before the step is not active
\* after it.
C29_NeverActiveAgain ==
    [][ \A k \in DOMAIN view' :
          IsListingId(k) =>
             /\ view'[k].status \in {"active", "sold", "removed"}
             /\ (k \in DOMAIN view /\ view[k].status \in {"sold", "removed"}) =>
                   view'[k].status # "active"
      ]_vars

\* a Listing was sold and then removed by its seller
C29_Witness ==
    /\ Present(view, L1) /\ view[L1].status = "removed"
    /\ Has(view[L1], "soldAt") /\ Has(view[L1], "removedAt")
    /\ view[L1].soldAt < view[L1].removedAt

\* the key of the Offer that Deal d names, in v
OfferOfDeal(v, d) == Join(StrField(v[d], "listingId"), StrField(v[d], "offerId"))

\* C30: after every step, each Deal names an Offer that is in the View with
\* status accepted, the Deal's finalPrice is that Offer's amount and its buyer
\* that Offer's buyer; and a Deal made while its Listing is in the View has
\* the seller stored in that Listing, whoever submitted the accept.
C30_DealMatchesOffer ==
    [][ /\ \A d \in DealKeys(view') :
             LET key == OfferOfDeal(view', d)
             IN /\ Present(view', key)
                /\ Has(view'[key], "status") /\ view'[key].status = "accepted"
                /\ Has(view'[key], "amount") /\ view'[d].finalPrice = view'[key].amount
                /\ Has(view'[key], "buyer") /\ view'[d].buyer = view'[key].buyer
        /\ (Applying /\ HeadIs({"offer_accept"})) =>
             \A d \in DealKeys(view') \ DealKeys(view) :
                (IsListingId(view'[d].listingId) /\ Present(view, view'[d].listingId)) =>
                   view'[d].seller = view[view'[d].listingId].seller
      ]_vars

\* C31: after every step, each Listing with status sold has a dealId that is
\* the key of a Deal in the View whose listingId is the Listing's id; and a
\* Listing gets a dealId (or another one) only in the apply step of an
\* offer_accept that names the Listing and moves a pending Offer to accepted.
C31_SoldListingNamesItsDeal ==
    [][ \A k \in DOMAIN view' :
          IsListingId(k) =>
             /\ view'[k].status = "sold" =>
                   /\ Has(view'[k], "dealId")
                   /\ IsDealKey(view'[k].dealId)
                   /\ Present(view', view'[k].dealId)
                   /\ Has(view'[view'[k].dealId], "listingId")
                   /\ view'[view'[k].dealId].listingId = k
                   /\ view'[k].id = k
             /\ (/\ Has(view'[k], "dealId")
                 /\ ~(/\ k \in DOMAIN view
                      /\ Has(view[k], "dealId")
                      /\ view[k].dealId = view'[k].dealId)) =>
                   /\ Applying
                   /\ HeadIs({"offer_accept"})
                   /\ StrField(NextEntry, "listingId") = k
                   /\ IsPendingAt(view, OfferKey(NextEntry))
                   /\ view'[OfferKey(NextEntry)].status = "accepted"
                   /\ view'[k].dealId \notin DOMAIN view
      ]_vars

\* a sold Listing that its seller updated afterwards still names its Deal
C31_Witness ==
    /\ Present(view, L1) /\ view[L1].status = "sold"
    /\ Has(view[L1], "dealId") /\ view[L1].dealId = D1
    /\ Present(view, D1) /\ view[D1].listingId = L1
    /\ Has(view[L1], "updatedAt") /\ view[L1].updatedAt > view[L1].soldAt

\* the offer_send calls among the calls of one handler
OfferSends(calls) == {n \in DOMAIN calls : calls[n].cmd.op = "offer_send"}

\* C32: no peer's rate limiter ever holds more than AutoBuyLimit timestamps.
\* When an agent handles a LISTING_POST, the limiter afterwards holds the
\* timestamps that were younger than the window, followed by one for each
\* admitted trigger and none for a suppressed one; each admitted trigger has
\* used its slot although its offer_send was rejected; and the limiter is
\* asked once for each admitted trigger and once more, for the trigger it
\* suppresses, after which no later rule is evaluated.
C32_LimiterSlots ==
    [][ /\ \A p \in Peers : Len(market'[p].dealTimestamps) <= AutoBuyLimit
        /\ \A p \in Peers, i \in DOMAIN outbox :
             LET msg == outbox[i].msg
                 matching == {k \in RulesOf(p, "auto_buy") :
                                /\ ~TruthyText(view[k].params, "category")
                                     \/ view[k].params.category = msg.category
                                /\ view[k].params.max_price >= msg.price}
                 kept == SelectSeq(market[p].dealTimestamps,
                                   LAMBDA s : now - s < DEAL_RATE_WINDOW_MS)
                 room == AutoBuyLimit - Len(kept)
                 n == IF Cardinality(matching) <= room THEN Cardinality(matching) ELSE room
             IN (Receive(p, i) /\ msg.event = "LISTING_POST" /\ market[p].agentMode) =>
                  /\ market'[p].dealTimestamps = kept \o [j \in 1..n |-> now]
                  /\ \A j \in DOMAIN market'[p].dealTimestamps :
                        now - market'[p].dealTimestamps[j] < DEAL_RATE_WINDOW_MS
                  /\ Cardinality(OfferSends(event'.calls)) = n
                  /\ \A c \in OfferSends(event'.calls) : ~event'.calls[c].reply.ok
                  /\ Len(pending') = Len(pending)
                  /\ event'.asked = n + (IF Cardinality(matching) > room THEN 1 ELSE 0)
      ]_vars

\* an agent with four matching rules handled a LISTING_POST when two slots
\* were left: two triggers were admitted, the third was suppressed and the
\* fourth rule was not evaluated
C32_Witness ==
    /\ event.kind = "message" /\ event.msg.event = "LISTING_POST"
    /\ Cardinality(OfferSends(event.calls)) = 2
    /\ event.asked = 3
    /\ Len(DataOf(event.calls[1].reply)) = 4
    /\ \A n \in 1..4 : DataOf(event.calls[1].reply)[n].params.max_price = 100
    /\ Len(market[event.to].dealTimestamps) = AutoBuyLimit

\* the Router's last command published event ev about listing id
Published(ev, field, id) ==
    \E i \in DOMAIN outbox :
       /\ outbox[i].msg.event = ev
       /\ Has(outbox[i].msg, field) /\ outbox[i].msg[field] = id

\* C33: when the apply step takes an offer_accept entry whose DEAL_CLOSED the
\* Router has published, a Deal for the entry's listing and offer is in the
\* View after the step; and when it takes a listing_remove entry whose
\* LISTING_REMOVE the Router has published, the Listing of that id is in the
\* View with status removed after the step.
C33_NotificationsAgree ==
    [][ /\ (Applying /\ HeadIs({"offer_accept"})
               /\ Published("DEAL_CLOSED", "listingId", NextEntry.listingId)) =>
              \E d \in DealKeys(view') :
                 /\ view'[d].listingId = NextEntry.listingId
                 /\ view'[d].offerId = NextEntry.offerId
        /\ (Applying /\ HeadIs({"listing_remove"})
               /\ Published("LISTING_REMOVE", "id", NextEntry.id)) =>
              /\ Present(view', NextEntry.id)
              /\ view'[NextEntry.id].status = "removed"
      ]_vars

====
